---------------------------- MODULE Spec2Model ----------------------------
(***************************************************************************)
(* A model of the task-orchestration core of the CA Factory backend:       *)
(*   - DelegationEngine.spawn_subagent and its active-worker registry      *)
(*     (backend/ca_factory/core/delegation.py), as concurrent asyncio      *)
(*     coroutines on one event loop;                                       *)
(*   - DelegationEngine.should_delegate, a pure decision function;         *)
(*   - AgentManager's token-budget step (estimate, then prune)             *)
(*     (backend/ca_factory/core/agent_manager.py);                         *)
(*   - QualityController's validations, gates and performance metrics      *)
(*     (backend/ca_factory/core/quality_control.py);                       *)
(*   - CAFactory's entry points ask_question, evaluate_rules and           *)
(*     retrieve_evidence (backend/ca_factory/core/factory.py).             *)
(*                                                                         *)
(* Coroutines are cooperative: a coroutine runs from one await to the next *)
(* without interleaving.  An action below is one such segment, except that *)
(* the handler that follows wait_for is cut in two (the status write, then *)
(* the finally block) so that the terminal status is visible in a state;   *)
(* while a call stands between the two, no other call takes a step.        *)
(***************************************************************************)
EXTENDS Integers, Sequences, FiniteSets, TLC

\* ------------------------------------------------------------------ bounds
\* Concurrent spawn_subagent calls (each may be re-issued after it ends).
NumCalls == 2

Calls == 1..NumCalls
\* Names for clock readings: one per call and one for the latest reading, so
\* that the clock can always have advanced.
Timestamps == 1..(NumCalls + 1)
\* Configured values of max_parallel_subagents.
ParallelLimits == {1, 2}

\* agent_type arguments used by the callers (factory.py: "qa", "evaluation").
AgentTypes == {"qa", "evaluation"}
\* The timeout argument the callers pass: subagent_timeout_seconds.
subagent_timeout_seconds == 60

NoId == <<"", 0>>
NoOutcome == [kind |-> "none"]

VARIABLES
    \* ---- DelegationEngine (spawn_subagent)
    max_parallel_subagents, \* thresholds["max_parallel_subagents"]
    active_subagents,       \* self._active_subagents: id -> handle
    lastTs,                 \* the clock reading of the latest id generated
    pc,                     \* where each call stands
    subagent_id,            \* each call's local subagent_id
    agent_type,             \* each call's agent_type argument
    exec,                   \* each call's _execute_subagent coroutine
    outcome                 \* what each call gave (or will give) its caller

spawnVars == <<max_parallel_subagents, active_subagents, lastTs, pc,
               subagent_id, agent_type, exec, outcome>>

VARIABLES
    \* ---- DelegationEngine (should_delegate)
    force_delegate,         \* thresholds["force_delegate"]
    never_delegate,         \* thresholds["never_delegate"]
    delegated_tasks,        \* self.delegated_tasks
    thresholds,             \* the numeric entries of self.thresholds
    delegation_call,        \* the latest should_delegate call and its result
    \* ---- DelegationEngine (create_context_bundle)
    context_bundle_config,  \* config["context_bundle_config"]
    bundle_call             \* the latest create_context_bundle call

shouldDelegateVars == <<force_delegate, never_delegate, delegated_tasks,
                        thresholds, delegation_call>>
bundleVars == <<context_bundle_config, bundle_call>>
delegVars == <<shouldDelegateVars, bundleVars>>

VARIABLES
    \* ---- AgentManager (token budget)
    max_tokens,             \* self.max_tokens
    pruning_policy,         \* self.pruning_policy
    context_in,             \* the context as _create_agent_context built it
    context,                \* the context at hand
    stage,                  \* how far the context has come
    prune_call,             \* the latest _prune_context call and its result
    \* ---- AgentManager (execute_agent)
    token_usage,            \* self._token_usage: agent_id -> tokens
    agent_call,             \* each execute_agent call: where it stands
    completed_executions,   \* the executions completed since the last reset
    executions,             \* execute_agent calls begun so far
    token_query             \* the latest get_token_usage call and its result

contextVars == <<max_tokens, pruning_policy, context_in, context, stage,
                 prune_call>>
tokenVars == <<token_usage, agent_call, completed_executions, executions,
               token_query>>
budgetVars == <<contextVars, tokenVars>>

VARIABLES
    \* ---- QualityController
    quality_gates,          \* self.quality_gates (config["quality_gates"])
    min_confidence_threshold, \* the agent profile's min_confidence_threshold
    retrieval_metrics,      \* self._retrieval_metrics
    response_metrics,       \* self._response_metrics
    failed_quality_gates,   \* self._failed_quality_gates
    validation_call,        \* the latest validation and its report
    performance_metrics,    \* self._performance_metrics
    total_requests,         \* self._total_requests
    cache_hits,             \* self._cache_hits
    cache_misses,           \* self._cache_misses
    metrics_call            \* the latest get_metrics call and what it gave

validationVars == <<retrieval_metrics, response_metrics,
                    failed_quality_gates, validation_call>>
performanceVars == <<performance_metrics, total_requests, cache_hits,
                     cache_misses, metrics_call>>
qualityVars == <<quality_gates, min_confidence_threshold, validationVars,
                 performanceVars>>

VARIABLES
    \* ---- CAFactory
    agents,                 \* the agent types self._agents has a profile for
    task                    \* each entry-point call: where it stands

factoryVars == <<agents, task>>

VARIABLES
    \* ---- ConfigLoader, TaskRegistry and TaskFactory
    task_definitions,       \* self.task_definitions, in insertion order
    handlers,               \* the task types self._handlers has a handler for
    order_call,             \* the latest get_task_execution_order call
    task_call               \* the latest execute_task call and what it gave

taskVars == <<task_definitions, handlers, order_call, task_call>>

vars == <<spawnVars, delegVars, budgetVars, qualityVars, factoryVars,
         taskVars>>

\* dict.get(key, default)
Get(d, k, default) == IF k \in DOMAIN d THEN d[k] ELSE default

\* The dicts whose keys are among those of vals, each key with one of its
\* values.
RECURSIVE DictsOver(_, _)
DictsOver(keys, vals) ==
    IF keys = {} THEN {<< >>}
    ELSE LET k == CHOOSE x \in keys : TRUE
             rest == DictsOver(keys \ {k}, vals)
         IN  rest \cup {[x \in DOMAIN d \cup {k} |->
                            IF x = k THEN v ELSE d[x]] :
                          d \in rest, v \in vals[k]}
Dicts(vals) == DictsOver(DOMAIN vals, vals)

\* ------------------------------------------------------ spawn_subagent parts

\* _generate_subagent_id: "subagent_<agent_type>_<timestamp>".  Two ids are
\* equal exactly when the agent types and the clock readings are equal.
generate_subagent_id(t, ts) == <<t, ts>>

\* Clock readings some part of the state still refers to.
UsedTs ==
    {subagent_id[q][2] : q \in {c \in Calls : pc[c] # "idle"}}
        \cup {id[2] : id \in DOMAIN active_subagents}
        \cup {lastTs}

\* What datetime.utcnow() can read at the next call: the reading of the
\* previous call again (the clock has not advanced between the two), or a
\* reading later than all earlier ones.  Readings are compared for equality
\* only, so a later reading is any one no part of the state refers to.
ClockReadings ==
    LET free == Timestamps \ UsedTs
    IN  (IF lastTs = 0 THEN {} ELSE {lastTs})
            \cup (IF free = {} THEN {}
                  ELSE {CHOOSE x \in free : \A y \in free : x <= y})

\* The limit test of spawn_subagent and of _wait_for_subagent_slot.
SlotFullOffByOne(n, max) == n > max
SlotFull(n, max) == n >= max

\* The handle spawn_subagent registers.  started_at (a clock reading no code
\* reads) is left out; owner is the call that created the dict object.
NewHandlePending(p, t, tm) ==
    [agent_type |-> t, timeout |-> tm, status |-> "pending", owner |-> p]
NewHandle(p, t, tm) ==
    [agent_type |-> t, timeout |-> tm, status |-> "running", owner |-> p]

\* self._active_subagents[id]["status"] = s
SetStatus(reg, id, s) == [reg EXCEPT ![id].status = s]

\* finally: if subagent_id in self._active_subagents: del ...
FinallyLeak(reg, id) == reg
Finally(reg, id) ==
    IF id \in DOMAIN reg
      THEN [k \in DOMAIN reg \ {id} |-> reg[k]]
      ELSE reg

\* What is left of the execution when wait_for raises TimeoutError: wait_for
\* cancels the awaited coroutine and raises only once it has unwound.
WaitForAbandons == "running"
WaitForOnTimeout == "cancelled_on_timeout"

\* The return values of spawn_subagent.
MockResult(id, t) ==
    [subagent_id |-> id, agent_type |-> t, confidence |-> 88,
     tokens_used |-> 2500]
TimeoutPayload(id, tm) ==
    [error |-> "Sub-agent execution timeout", subagent_id |-> id,
     timeout |-> tm]
ErrorPayload(id) ==
    [error |-> "executor error", subagent_id |-> id]

Returned(v) == [kind |-> "returned", value |-> v]
Raised(e) == [kind |-> "raised", exc |-> e]

\* self._subagent_results, which spawn_subagent only writes (line 220): the
\* results of the calls at hand.  An entry is forgotten with its call's
\* frame, as no code of the engine's callers reads it.
subagent_results ==
    {outcome[p].value : p \in {c \in Calls :
        /\ pc[c] \in {"cleanup", "done"}
        /\ outcome[c].kind = "returned"
        /\ exec[c] = "finished"}}

\* No call stands between its status write and its finally block.
NoneMidSegment == \A q \in Calls : pc[q] # "cleanup"

SpawnInit ==
    /\ max_parallel_subagents \in ParallelLimits
    /\ active_subagents = << >>
    /\ lastTs = 0
    /\ pc = [p \in Calls |-> "idle"]
    /\ subagent_id = [p \in Calls |-> NoId]
    /\ agent_type = [p \in Calls |-> ""]
    /\ exec = [p \in Calls |-> "none"]
    /\ outcome = [p \in Calls |-> NoOutcome]

\* Lines 204-217: register the handle and start the execution under wait_for.
Register(p, id, t, tm) ==
    /\ active_subagents' =
         [k \in DOMAIN active_subagents \cup {id} |->
            IF k = id THEN NewHandle(p, t, tm) ELSE active_subagents[k]]
    /\ pc' = [pc EXCEPT ![p] = "executing"]
    /\ exec' = [exec EXCEPT ![p] = "running"]

\* spawn_subagent from its entry to its first await (lines 189-217), for an
\* agent_type argument among types.
SpawnEntry(p, types) ==
    /\ pc[p] = "idle"
    /\ NoneMidSegment
    /\ \E t \in types, ts \in ClockReadings :
         LET id == generate_subagent_id(t, ts) IN
         /\ subagent_id' = [subagent_id EXCEPT ![p] = id]
         /\ agent_type' = [agent_type EXCEPT ![p] = t]
         /\ lastTs' = ts
         /\ IF SlotFull(Cardinality(DOMAIN active_subagents),
                        max_parallel_subagents)
              THEN /\ pc' = [pc EXCEPT ![p] = "waiting"]
                   /\ UNCHANGED <<active_subagents, exec>>
              ELSE Register(p, id, t, subagent_timeout_seconds)
    /\ UNCHANGED <<max_parallel_subagents, outcome>>

\* A call of spawn_subagent by any caller.
Start(p) ==
    /\ SpawnEntry(p, AgentTypes)
    /\ UNCHANGED <<delegVars, budgetVars, qualityVars, factoryVars, taskVars>>

\* _wait_for_subagent_slot waking from asyncio.sleep(0.1) (lines 297-298),
\* and, when the loop ends, spawn_subagent up to its next await.
Poll(p) ==
    /\ pc[p] = "waiting"
    /\ NoneMidSegment
    /\ IF SlotFull(Cardinality(DOMAIN active_subagents),
                   max_parallel_subagents)
         THEN UNCHANGED <<active_subagents, pc, exec>>
         ELSE Register(p, subagent_id[p], agent_type[p],
                       subagent_timeout_seconds)
    /\ UNCHANGED <<max_parallel_subagents, lastTs,
                   subagent_id, agent_type, outcome>>
    /\ UNCHANGED <<delegVars, budgetVars, qualityVars, factoryVars, taskVars>>

\* A status write on a key the registry no longer holds raises KeyError; in
\* the try body it is caught by "except Exception", whose own status write
\* raises KeyError again, and that one leaves spawn_subagent.
Handler(p, ex, status, payload) ==
    LET id == subagent_id[p] IN
    /\ exec' = [exec EXCEPT ![p] = ex]
    /\ pc' = [pc EXCEPT ![p] = "cleanup"]
    /\ IF id \in DOMAIN active_subagents
         THEN /\ active_subagents' = SetStatus(active_subagents, id, status)
              /\ outcome' = [outcome EXCEPT ![p] = Returned(payload)]
         ELSE /\ outcome' = [outcome EXCEPT ![p] = Raised("KeyError")]
              /\ UNCHANGED active_subagents

\* wait_for returns the result (lines 219-224).
Complete(p) ==
    /\ pc[p] = "executing"
    /\ NoneMidSegment
    /\ Handler(p, "finished", "completed",
               MockResult(subagent_id[p], agent_type[p]))
    /\ UNCHANGED <<max_parallel_subagents, lastTs, subagent_id, agent_type>>
    /\ UNCHANGED <<delegVars, budgetVars, qualityVars, factoryVars, taskVars>>

\* wait_for raises asyncio.TimeoutError (lines 226-234).
Timeout(p) ==
    /\ pc[p] = "executing"
    /\ NoneMidSegment
    /\ Handler(p, WaitForOnTimeout, "timeout",
               TimeoutPayload(subagent_id[p], subagent_timeout_seconds))
    /\ UNCHANGED <<max_parallel_subagents, lastTs,
                   subagent_id, agent_type>>
    /\ UNCHANGED <<delegVars, budgetVars, qualityVars, factoryVars, taskVars>>

\* The execution raises an exception (lines 236-243).
ExecRaises(p) ==
    /\ pc[p] = "executing"
    /\ NoneMidSegment
    /\ Handler(p, "raised", "failed", ErrorPayload(subagent_id[p]))
    /\ UNCHANGED <<max_parallel_subagents, lastTs,
                   subagent_id, agent_type>>
    /\ UNCHANGED <<delegVars, budgetVars, qualityVars, factoryVars, taskVars>>

\* The caller's task is cancelled while spawn_subagent is suspended:
\* CancelledError is no Exception, so only the finally block runs; a call
\* still waiting for a slot has not entered the try statement.
Cancel(p) ==
    /\ NoneMidSegment
    /\ \/ /\ pc[p] = "waiting"
          /\ pc' = [pc EXCEPT ![p] = "done"]
          /\ UNCHANGED exec
       \/ /\ pc[p] = "executing"
          /\ pc' = [pc EXCEPT ![p] = "cleanup"]
          /\ exec' = [exec EXCEPT ![p] = "cancelled_with_caller"]
    /\ outcome' = [outcome EXCEPT ![p] = Raised("CancelledError")]
    /\ UNCHANGED <<max_parallel_subagents, active_subagents, lastTs, subagent_id, agent_type>>
    /\ UNCHANGED <<delegVars, budgetVars, qualityVars, factoryVars, taskVars>>

\* The finally block (lines 245-248); spawn_subagent has then ended.
Cleanup(p) ==
    /\ pc[p] = "cleanup"
    /\ active_subagents' = Finally(active_subagents, subagent_id[p])
    /\ pc' = [pc EXCEPT ![p] = "done"]
    /\ UNCHANGED <<max_parallel_subagents, lastTs,
                   subagent_id, agent_type, exec, outcome>>
    /\ UNCHANGED <<delegVars, budgetVars, qualityVars, factoryVars, taskVars>>

\* The caller has taken the outcome; the call's frame is gone.
TakeOutcome(p) ==
    /\ pc[p] = "done"
    /\ NoneMidSegment
    /\ pc' = [pc EXCEPT ![p] = "idle"]
    /\ subagent_id' = [subagent_id EXCEPT ![p] = NoId]
    /\ agent_type' = [agent_type EXCEPT ![p] = ""]
    /\ exec' = [exec EXCEPT ![p] = "none"]
    /\ outcome' = [outcome EXCEPT ![p] = NoOutcome]
    /\ UNCHANGED <<max_parallel_subagents, active_subagents, lastTs>>

\* spawn_subagent has ended and given its outcome to any caller.
Return(p) ==
    /\ TakeOutcome(p)
    /\ UNCHANGED <<delegVars, budgetVars, qualityVars, factoryVars, taskVars>>

SpawnNext ==
    \/ \E p \in Calls : Start(p)
    \/ \E p \in Calls : Poll(p)
    \/ \E p \in Calls : Complete(p)
    \/ \E p \in Calls : Timeout(p)
    \/ \E p \in Calls : ExecRaises(p)
    \/ \E p \in Calls : Cancel(p)
    \/ \E p \in Calls : Cleanup(p)
    \/ \E p \in Calls : Return(p)

\* ------------------------------------------------------- should_delegate

\* task_type arguments of the callers (factory.py).
TaskTypes == {"qa_response", "rule_evaluation"}

\* The defaults of should_delegate's .get calls.
DefaultEstimatedTokens == 0
DefaultNumSources == 1
DefaultReasoningDepth == 1
DefaultTokensThreshold == 40000
DefaultMultiSourceThreshold == 5
DefaultDepthThreshold == 3

\* Configured thresholds and complexity estimates explored: each key may be
\* missing; the values lie below, at and above the thresholds in force.
ThresholdValues ==
    [estimated_tokens_threshold |-> {50000},
     multi_source_threshold |-> {2},
     reasoning_depth_threshold |-> {5}]
ComplexityValues ==
    [estimated_tokens |-> {40000, 40001, 50000, 50001},
     num_sources |-> {2, 3, 5, 6},
     reasoning_depth |-> {3, 4, 5, 6}]

\* The comparison of a complexity value with its threshold.
ExceedsOrEqual(v, t) == v >= t
Exceeds(v, t) == v > t

\* Lines 86-113: the complexity-based part of the decision.
ComplexityDelegates(cx) ==
    IF Exceeds(Get(cx, "estimated_tokens", DefaultEstimatedTokens),
               Get(thresholds, "estimated_tokens_threshold",
                   DefaultTokensThreshold))
      THEN TRUE
    ELSE IF Exceeds(Get(cx, "num_sources", DefaultNumSources),
                    Get(thresholds, "multi_source_threshold",
                        DefaultMultiSourceThreshold))
      THEN TRUE
    ELSE IF Exceeds(Get(cx, "reasoning_depth", DefaultReasoningDepth),
                    Get(thresholds, "reasoning_depth_threshold",
                        DefaultDepthThreshold))
      THEN TRUE
    ELSE FALSE

\* should_delegate with the never_delegate test first.
should_delegate_never_first(task_type, cx) ==
    IF task_type \in never_delegate THEN FALSE
    ELSE IF task_type \in force_delegate THEN TRUE
    ELSE IF task_type \notin delegated_tasks THEN FALSE
    ELSE ComplexityDelegates(cx)
\* should_delegate without the never_delegate test.
should_delegate_no_never(task_type, cx) ==
    IF task_type \in force_delegate THEN TRUE
    ELSE IF task_type \notin delegated_tasks THEN FALSE
    ELSE ComplexityDelegates(cx)
\* should_delegate (lines 70-113).
should_delegate(task_type, cx) ==
    IF task_type \in force_delegate THEN TRUE
    ELSE IF task_type \in never_delegate THEN FALSE
    ELSE IF task_type \notin delegated_tasks THEN FALSE
    ELSE ComplexityDelegates(cx)

NoCall == [called |-> FALSE]

\* The engine as DelegationEngine.__init__ leaves it, for a configuration
\* without delegation settings.
DelegIdle ==
    /\ force_delegate = {}
    /\ never_delegate = {}
    /\ delegated_tasks = {}
    /\ thresholds = << >>
    /\ delegation_call = NoCall

\* The engine for any configuration of the lists and thresholds.
DelegInit ==
    /\ force_delegate \in SUBSET TaskTypes
    /\ never_delegate \in SUBSET TaskTypes
    /\ delegated_tasks \in SUBSET TaskTypes
    /\ thresholds \in Dicts(ThresholdValues)
    /\ delegation_call = NoCall

\* A call of should_delegate.
ShouldDelegate ==
    /\ ~delegation_call.called
    /\ \E t \in TaskTypes, cx \in Dicts(ComplexityValues) :
         delegation_call' =
            [called |-> TRUE, task_type |-> t, complexity |-> cx,
             result |-> should_delegate(t, cx)]
    /\ UNCHANGED <<force_delegate, never_delegate, delegated_tasks,
                   thresholds, bundleVars>>
    /\ UNCHANGED <<spawnVars, budgetVars, qualityVars, factoryVars, taskVars>>

\* The engine between calls of spawn_subagent.
SpawnIdle ==
    /\ max_parallel_subagents = 3
    /\ active_subagents = << >>
    /\ lastTs = 0
    /\ pc = [p \in Calls |-> "idle"]
    /\ subagent_id = [p \in Calls |-> NoId]
    /\ agent_type = [p \in Calls |-> ""]
    /\ exec = [p \in Calls |-> "none"]
    /\ outcome = [p \in Calls |-> NoOutcome]

\* ------------------------------------------------- create_context_bundle

\* The longest question explored, in characters.
MaxQuestionChars == 3

\* The default of bundle_config.get("max_bundle_tokens", ...).
DefaultMaxBundleTokens == 2000
\* The default of bundle_config.get("compression_strategy", ...).
DefaultCompressionStrategy == "summarize"
\* The characters one estimated token stands for.
CharsPerToken == 4
\* The lengths of datetime.utcnow().isoformat(): without the microseconds
\* when they are zero, with them otherwise.
IsoformatLengths == {19, 26}
\* The length of strftime("%Y%m%d%H%M%S%f").
TimestampDigits == 20

\* Text is a sequence of characters.  The keys and the literal strings of
\* the bundles, character by character.
KeyChars ==
    [task_type |-> <<"t", "a", "s", "k", "_", "t", "y", "p", "e">>,
     created_at |-> <<"c", "r", "e", "a", "t", "e", "d", "_", "a", "t">>,
     bundle_id |-> <<"b", "u", "n", "d", "l", "e", "_", "i", "d">>,
     inputs |-> <<"i", "n", "p", "u", "t", "s">>,
     outputs |-> <<"o", "u", "t", "p", "u", "t", "s">>,
     reasoning |-> <<"r", "e", "a", "s", "o", "n", "i", "n", "g">>,
     tool_calls |-> <<"t", "o", "o", "l", "_", "c", "a", "l", "l", "s">>,
     patient_id |-> <<"p", "a", "t", "i", "e", "n", "t", "_", "i", "d">>,
     question |-> <<"q", "u", "e", "s", "t", "i", "o", "n">>,
     encounter_id |-> <<"e", "n", "c", "o", "u", "n", "t", "e", "r", "_", "i", "d">>,
     domain |-> <<"d", "o", "m", "a", "i", "n">>,
     include_evidence |-> <<"i", "n", "c", "l", "u", "d", "e", "_", "e", "v", "i", "d", "e", "n", "c", "e">>]
WordChars ==
    [qa_response |-> <<"q", "a", "_", "r", "e", "s", "p", "o", "n", "s", "e">>,
     rule_evaluation |-> <<"r", "u", "l", "e", "_", "e", "v", "a", "l", "u", "a", "t", "i", "o", "n">>,
     bundle |-> <<"b", "u", "n", "d", "l", "e", "_">>,
     CLABSI |-> <<"C", "L", "A", "B", "S", "I">>,
     P1 |-> <<"P", "1">>,
     null |-> <<"n", "u", "l", "l">>,
     true |-> <<"t", "r", "u", "e">>,
     false |-> <<"f", "a", "l", "s", "e">>]
\* n characters of data that json.dumps writes as they are.
Text(n) == [i \in 1..n |-> "x"]

\* JSON values: what a bundle is made of and what json.loads gives.  A dict
\* is the sequence of its items in insertion order.
JStr(cs) == [type |-> "str", chars |-> cs]
JNull == [type |-> "null"]
JBool(b) == [type |-> "bool", value |-> b]
JList(items) == [type |-> "list", items |-> items]
JDict(members) == [type |-> "dict", members |-> members]

\* The keys of a dict.
KeysOf(d) == {d.members[i][1] : i \in 1..Len(d.members)}
\* dict[key] = value: in place for a key the dict has, at the end otherwise.
SetItem(d, k, v) ==
    IF k \in KeysOf(d)
      THEN JDict([i \in 1..Len(d.members) |->
                    IF d.members[i][1] = k THEN <<k, v>> ELSE d.members[i]])
      ELSE JDict(Append(d.members, <<k, v>>))

\* json.dumps with its default separators ", " and ": ".
RECURSIVE json_dumps(_), DumpItems(_), DumpMembers(_)
json_dumps(v) ==
    CASE v.type = "str" -> <<"\"">> \o v.chars \o <<"\"">>
      [] v.type = "null" -> WordChars.null
      [] v.type = "bool" ->
            IF v.value THEN WordChars.true ELSE WordChars.false
      [] v.type = "list" -> <<"[">> \o DumpItems(v.items) \o <<"]">>
      [] v.type = "dict" -> <<"{">> \o DumpMembers(v.members) \o <<"}">>
DumpItems(items) ==
    IF items = << >> THEN << >>
    ELSE IF Len(items) = 1 THEN json_dumps(items[1])
    ELSE json_dumps(items[1]) \o <<",", " ">> \o DumpItems(Tail(items))
DumpMembers(members) ==
    IF members = << >> THEN << >>
    ELSE LET one == <<"\"">> \o members[1][1] \o <<"\"", ":", " ">>
                    \o json_dumps(members[1][2])
         IN  IF Len(members) = 1 THEN one
             ELSE one \o <<",", " ">> \o DumpMembers(Tail(members))

\* json.loads: a recursive-descent parse of the whole text.  ParseFail
\* stands for JSONDecodeError.  Strings hold no escapes and no value is a
\* number, as in the texts json_dumps writes above.
ParseFail == [ok |-> FALSE]
ParseOk(v, next) == [ok |-> TRUE, value |-> v, next |-> next]

\* The first position from i on that holds no blank.
SkipWs(s, i) ==
    CHOOSE j \in i..(Len(s) + 1) :
        /\ j = Len(s) + 1 \/ s[j] # " "
        /\ \A k \in i..(j - 1) : s[k] = " "

\* A string that opens at i.
ParseString(s, i) ==
    LET closing == {j \in (i + 1)..Len(s) : s[j] = "\""}
    IN  IF closing = {} THEN ParseFail
        ELSE LET j == CHOOSE c \in closing : \A d \in closing : c <= d
             IN  ParseOk(JStr(SubSeq(s, i + 1, j - 1)), j + 1)

\* One of the words null, true and false at i.
ParseWord(s, i, word, v) ==
    IF /\ i + Len(word) - 1 <= Len(s)
       /\ SubSeq(s, i, i + Len(word) - 1) = word
      THEN ParseOk(v, i + Len(word))
      ELSE ParseFail

RECURSIVE ParseValue(_, _), ParseMembers(_, _, _), ParseItems(_, _, _)
ParseValue(s, i) ==
    IF i > Len(s) THEN ParseFail
    ELSE CASE s[i] = "\"" -> ParseString(s, i)
           [] s[i] = "n" -> ParseWord(s, i, WordChars.null, JNull)
           [] s[i] = "t" -> ParseWord(s, i, WordChars.true, JBool(TRUE))
           [] s[i] = "f" -> ParseWord(s, i, WordChars.false, JBool(FALSE))
           [] s[i] = "{" ->
                LET j == SkipWs(s, i + 1)
                IN  IF j <= Len(s) /\ s[j] = "}"
                      THEN ParseOk(JDict(<< >>), j + 1)
                      ELSE ParseMembers(s, j, JDict(<< >>))
           [] s[i] = "[" ->
                LET j == SkipWs(s, i + 1)
                IN  IF j <= Len(s) /\ s[j] = "]"
                      THEN ParseOk(JList(<< >>), j + 1)
                      ELSE ParseItems(s, j, << >>)
           [] OTHER -> ParseFail
\* The items of a dict from i on, where a key must open.
ParseMembers(s, i, acc) ==
    IF i > Len(s) \/ s[i] # "\"" THEN ParseFail
    ELSE LET k == ParseString(s, i)
         IN  IF ~k.ok THEN ParseFail
             ELSE LET c == SkipWs(s, k.next)
                  IN  IF c > Len(s) \/ s[c] # ":" THEN ParseFail
                      ELSE LET v == ParseValue(s, SkipWs(s, c + 1))
                           IN  IF ~v.ok THEN ParseFail
                               ELSE LET e == SkipWs(s, v.next)
                                        d == SetItem(acc, k.value.chars,
                                                     v.value)
                                    IN  IF e > Len(s) THEN ParseFail
                                        ELSE IF s[e] = "}"
                                          THEN ParseOk(d, e + 1)
                                        ELSE IF s[e] = ","
                                          THEN ParseMembers(
                                                  s, SkipWs(s, e + 1), d)
                                        ELSE ParseFail
\* The items of a list from i on, where a value must open.
ParseItems(s, i, acc) ==
    LET v == ParseValue(s, i)
    IN  IF ~v.ok THEN ParseFail
        ELSE LET e == SkipWs(s, v.next)
                 items == Append(acc, v.value)
             IN  IF e > Len(s) THEN ParseFail
                 ELSE IF s[e] = "]" THEN ParseOk(JList(items), e + 1)
                 ELSE IF s[e] = ","
                   THEN ParseItems(s, SkipWs(s, e + 1), items)
                 ELSE ParseFail
json_loads(s) ==
    LET v == ParseValue(s, SkipWs(s, 1))
    IN  IF ~v.ok THEN ParseFail
        ELSE IF SkipWs(s, v.next) <= Len(s) THEN ParseFail
        ELSE [ok |-> TRUE, value |-> v.value]

\* _estimate_bundle_tokens (lines 310-314).
estimate_bundle_tokens(bundle) == Len(json_dumps(bundle)) \div CharsPerToken

\* _generate_bundle_id: "bundle_<task_type>_<timestamp>".
generate_bundle_id(task_type) ==
    WordChars.bundle \o task_type \o <<"_">> \o Text(TimestampDigits)

\* The branch of _compress_bundle for the strategy truncate (lines 335-341).
CompressTruncate(bundle, target_tokens) ==
    LET bundle_str == json_dumps(bundle)
        max_chars == target_tokens * CharsPerToken
    IN  IF Len(bundle_str) > max_chars
          THEN LET loaded == json_loads(SubSeq(bundle_str, 1, max_chars)
                                        \o <<"}">>)
               IN  IF loaded.ok THEN Returned(loaded.value)
                   ELSE Raised("JSONDecodeError")
          ELSE Returned(bundle)
\* _compress_bundle with a branch for the strategy truncate only.
compress_bundle_truncate_only(bundle, strategy, target_tokens) ==
    IF strategy = "truncate" THEN CompressTruncate(bundle, target_tokens)
    ELSE Returned(bundle)
\* _compress_bundle (lines 316-351): the branches for summarize and smart
\* are empty.
compress_bundle(bundle, strategy, target_tokens) ==
    IF strategy = "truncate" THEN CompressTruncate(bundle, target_tokens)
    ELSE IF strategy = "summarize" THEN Returned(bundle)
    ELSE IF strategy = "smart" THEN Returned(bundle)
    ELSE Returned(bundle)

\* The bundle of lines 134-154, before any compression.
PlainBundle(task_type, created_at, inputs, include_reasoning, cfg) ==
    LET b0 == JDict(<< <<KeyChars.task_type, JStr(task_type)>>,
                       <<KeyChars.created_at, JStr(created_at)>>,
                       <<KeyChars.bundle_id,
                         JStr(generate_bundle_id(task_type))>> >>)
        b1 == IF Get(cfg, "include_inputs", TRUE)
                THEN SetItem(b0, KeyChars.inputs, inputs) ELSE b0
        b2 == IF Get(cfg, "include_outputs", TRUE)
                THEN SetItem(b1, KeyChars.outputs, JNull) ELSE b1
        b3 == IF Get(cfg, "include_reasoning", TRUE) /\ include_reasoning
                THEN SetItem(b2, KeyChars.reasoning, JList(<< >>)) ELSE b2
    IN  IF Get(cfg, "include_tool_calls", FALSE)
          THEN SetItem(b3, KeyChars.tool_calls, JList(<< >>)) ELSE b3

\* create_context_bundle (lines 118-170).  Line 168 reads the bundle's
\* bundle_id for the log message.
create_context_bundle(task_type, created_at, inputs, include_reasoning, cfg) ==
    LET bundle == PlainBundle(task_type, created_at, inputs,
                              include_reasoning, cfg)
        max_bundle_tokens ==
            Get(cfg, "max_bundle_tokens", DefaultMaxBundleTokens)
        compressed ==
            IF estimate_bundle_tokens(bundle) > max_bundle_tokens
              THEN compress_bundle(
                      bundle,
                      Get(cfg, "compression_strategy",
                          DefaultCompressionStrategy),
                      max_bundle_tokens)
              ELSE Returned(bundle)
    IN  IF compressed.kind = "raised" THEN compressed
        ELSE IF KeyChars.bundle_id \notin KeysOf(compressed.value)
          THEN Raised("KeyError")
        ELSE compressed

\* The inputs the factory's callers pass (factory.py, lines 318-322 and
\* 369-374), for a question of the given text.
QaInputs(question) ==
    JDict(<< <<KeyChars.patient_id, JStr(WordChars.P1)>>,
             <<KeyChars.question, JStr(question)>>,
             <<KeyChars.encounter_id, JNull>> >>)
RuleInputs ==
    JDict(<< <<KeyChars.patient_id, JStr(WordChars.P1)>>,
             <<KeyChars.encounter_id, JNull>>,
             <<KeyChars.domain, JStr(WordChars.CLABSI)>>,
             <<KeyChars.include_evidence, JBool(TRUE)>> >>)
BundleInputs(task_type) ==
    IF task_type = "qa_response"
      THEN {QaInputs(Text(n)) : n \in 0..MaxQuestionChars}
      ELSE {RuleInputs}
TaskTypeChars(task_type) ==
    IF task_type = "qa_response" THEN WordChars.qa_response
    ELSE WordChars.rule_evaluation

\* Configurations of context_bundle_config explored: each key may be
\* missing; the token caps lie around the sizes of the bundles above.
BundleConfigValues ==
    [max_bundle_tokens |-> {0, 16, 30} \cup (48..60),
     compression_strategy |-> {"truncate", "summarize", "smart"},
     include_inputs |-> {FALSE},
     include_outputs |-> {FALSE},
     include_reasoning |-> {FALSE},
     include_tool_calls |-> {TRUE}]

\* The engine for a configuration without context_bundle_config.
BundleIdle ==
    /\ context_bundle_config = << >>
    /\ bundle_call = NoCall

\* The engine for any context_bundle_config.
BundleInit ==
    /\ context_bundle_config \in Dicts(BundleConfigValues)
    /\ bundle_call = NoCall

\* A call of create_context_bundle.
CreateContextBundle ==
    /\ ~bundle_call.called
    /\ \E t \in TaskTypes, n \in IsoformatLengths, r \in BOOLEAN :
         \E i \in BundleInputs(t) :
            bundle_call' =
               [called |-> TRUE, task_type |-> t, inputs |-> i,
                include_reasoning |-> r, created_at |-> Text(n),
                outcome |-> create_context_bundle(
                               TaskTypeChars(t), Text(n), i, r,
                               context_bundle_config)]
    /\ UNCHANGED <<context_bundle_config, shouldDelegateVars>>
    /\ UNCHANGED <<spawnVars, budgetVars, qualityVars, factoryVars, taskVars>>

\* ------------------------------------------------------------ token budget

\* Knowledge chunks per context.
MaxChunks == 3

\* Relevance scores in tenths (5 is 0.5).
Scores == {3, 5, 8}
DefaultRelevanceScore == 0
DefaultMinRelevanceScore == 5
DefaultMaxDocuments == 10
DefaultTemporalWindowDays == 14

\* A knowledge chunk is a dict with an id and, possibly, a relevance_score.
Chunks(i) == {[id |-> i]} \cup {[id |-> i, relevance_score |-> x] : x \in Scores}
KnowledgeLists ==
    UNION {{ks \in [1..n -> UNION {Chunks(i) : i \in 1..n}] :
               \A i \in 1..n : ks[i] \in Chunks(i)} : n \in 0..MaxChunks}

\* len(str(k)) of a chunk: "{'id': 1}" has 9 characters,
\* "{'id': 1, 'relevance_score': 0.5}" has 32.
StrLenChunk(k) == IF "relevance_score" \in DOMAIN k THEN 32 ELSE 9
\* len(str(inputs)) of the inputs explored: "{'patient_id': 1}".
StrLenInputs(i) == 17

Contexts ==
    {[system_prompt |-> sp, domain_prompt |-> "dom",
      inputs |-> [patient_id |-> 1], primed_knowledge |-> ks,
      tools |-> <<"search">>] : sp \in {"", "sys"}, ks \in KnowledgeLists}

\* Configured budgets: below the prompts and inputs alone, met exactly by
\* some contexts, exceeded by others, and the default of 8000.
MaxTokensValues == {4, 5, 13, 8000}
PolicyValues ==
    [min_relevance_score |-> {8},
     max_documents_per_query |-> {1, 2},
     temporal_window_days |-> {0, 7}]

RECURSIVE SumChars(_)
SumChars(ks) ==
    IF ks = << >> THEN 0
    ELSE StrLenChunk(Head(ks)) + SumChars(Tail(ks))

\* _estimate_tokens (lines 187-196): a quarter of the characters, rounded
\* down.
estimate_tokens(c) ==
    (Len(c.system_prompt) + Len(c.domain_prompt) + StrLenInputs(c.inputs)
        + SumChars(c.primed_knowledge)) \div 4

\* The sort key of line 225.
RelevanceOf(k) == Get(k, "relevance_score", DefaultRelevanceScore)

\* x put in front of the entries that score as much: equal entries end up
\* in reverse order.
RECURSIVE InsertDescendingUnstable(_, _)
InsertDescendingUnstable(ks, x) ==
    IF ks = << >> THEN <<x>>
    ELSE IF RelevanceOf(Head(ks)) > RelevanceOf(x)
      THEN <<Head(ks)>> \o InsertDescendingUnstable(Tail(ks), x)
      ELSE <<x>> \o ks

\* x put into a list sorted by descending relevance, behind the entries
\* that score at least as much.
RECURSIVE InsertDescending(_, _)
InsertDescending(ks, x) ==
    IF ks = << >> THEN <<x>>
    ELSE IF RelevanceOf(Head(ks)) >= RelevanceOf(x)
      THEN <<Head(ks)>> \o InsertDescending(Tail(ks), x)
      ELSE <<x>> \o ks

\* sorted(knowledge, key=relevance, reverse=True): stable, so entries of
\* equal relevance keep their order.
RECURSIVE SortedDescending(_)
SortedDescending(ks) ==
    IF ks = << >> THEN << >>
    ELSE InsertDescending(SortedDescending(SubSeq(ks, 1, Len(ks) - 1)),
                          ks[Len(ks)])

\* ks[:n + 1]
PrefixOffByOne(ks, n) == SubSeq(ks, 1, IF n + 1 < Len(ks) THEN n + 1 ELSE Len(ks))
\* ks[:n] for n >= 0
Prefix(ks, n) == SubSeq(ks, 1, IF n < Len(ks) THEN n ELSE Len(ks))

\* A temporal filter that keeps no item of the inputs.
apply_temporal_pruning_dropping(inputs, window_days) == << >>
\* _apply_temporal_pruning (lines 267-275): computes a cutoff and returns
\* the inputs as they are.
apply_temporal_pruning(inputs, window_days) == inputs

\* _prune_context (lines 215-250); target_tokens is only logged.
prune_context(c, target_tokens) ==
    LET min_relevance_score ==
            Get(pruning_policy, "min_relevance_score",
                DefaultMinRelevanceScore)
        max_documents ==
            Get(pruning_policy, "max_documents_per_query",
                DefaultMaxDocuments)
        temporal_window_days ==
            Get(pruning_policy, "temporal_window_days",
                DefaultTemporalWindowDays)
        Keep(k) == RelevanceOf(k) >= min_relevance_score
        knowledge ==
            SelectSeq(Prefix(SortedDescending(c.primed_knowledge),
                             max_documents), Keep)
    IN  [c EXCEPT !.primed_knowledge = knowledge,
                  !.inputs = IF temporal_window_days # 0
                               THEN apply_temporal_pruning(
                                        c.inputs, temporal_window_days)
                               ELSE c.inputs]

\* The test of line 92.
AtOrOverBudget(tokens, max) == tokens >= max
OverBudget(tokens, max) == tokens > max

NoPruneCall == [called |-> FALSE]
PruneCall(c, t) ==
    [called |-> TRUE, context |-> c, target_tokens |-> t,
     result |-> prune_context(c, t)]

\* A manager of any budget and policy with a context just built.
BudgetInit ==
    /\ max_tokens \in MaxTokensValues
    /\ pruning_policy \in Dicts(PolicyValues)
    /\ context_in \in Contexts
    /\ context = context_in
    /\ stage = "created"
    /\ prune_call = NoPruneCall

\* A manager with no context at hand.
BudgetIdle ==
    /\ max_tokens = 8000
    /\ pruning_policy = << >>
    /\ context_in = << >>
    /\ context = << >>
    /\ stage = "none"
    /\ prune_call = NoPruneCall

\* execute_agent, lines 90-96: prune when the estimate exceeds max_tokens.
CheckTokenBudget ==
    /\ stage = "created"
    /\ stage' = "budgeted"
    /\ IF OverBudget(estimate_tokens(context), max_tokens)
         THEN /\ prune_call' = PruneCall(context, max_tokens)
              /\ context' = prune_context(context, max_tokens)
         ELSE UNCHANGED <<context, prune_call>>
    /\ UNCHANGED <<max_tokens, pruning_policy, context_in, tokenVars>>
    /\ UNCHANGED <<spawnVars, delegVars, qualityVars, factoryVars, taskVars>>

\* _prune_context called on the context at hand with any target, once or
\* twice in a row.
PruneContext ==
    /\ stage \in {"created", "pruned"}
    /\ stage' = IF stage = "created" THEN "pruned" ELSE "pruned twice"
    /\ \E t \in MaxTokensValues :
         /\ prune_call' = PruneCall(context, t)
         /\ context' = prune_context(context, t)
    /\ UNCHANGED <<max_tokens, pruning_policy, context_in, tokenVars>>
    /\ UNCHANGED <<spawnVars, delegVars, qualityVars, factoryVars, taskVars>>

\* ------------------------------------------------------------ execute_agent

\* execute_agent calls begun on one manager.
MaxExecutions == 3

\* The tokens_used of _execute_agent_internal's result (line 318).
TokensUsed == 1500
\* The default of result.get("tokens_used", ...) and of
\* self._token_usage.get(agent_id, ...) (lines 107-108).
DefaultTokens == 0

\* agent_id arguments: the model names an agent by the agent_type of its
\* profile.
AgentIds == {"qa", "evaluation", "retrieval"}

\* _execute_agent_internal's result (agent_manager.py, lines 313-321).
DirectResult(t) ==
    [agent_id |-> t, agent_type |-> t, confidence |-> 85,
     tokens_used |-> TokensUsed]

\* dict[key] = value
Put(d, k, v) == [x \in DOMAIN d \cup {k} |-> IF x = k THEN v ELSE d[x]]

\* The counter's new value written as the tokens of the latest execution.
Overwrite(old, used) == used
\* The counter's new value (line 108).
Accumulate(old, used) == old + used

\* reset_token_usage (lines 344-347): one counter set to 0, or with no
\* agent_id all counters dropped.
reset_token_usage(usage, agent_id) ==
    IF agent_id # "" THEN Put(usage, agent_id, 0) ELSE << >>
\* get_token_usage (lines 333-335).
get_token_usage(usage, agent_id) ==
    IF agent_id # ""
      THEN Put(<< >>, agent_id, Get(usage, agent_id, DefaultTokens))
      ELSE usage

NoAgentCall == [at |-> "idle"]

\* A manager that has executed nothing.
TokensIdle ==
    /\ token_usage = << >>
    /\ agent_call = [p \in Calls |-> NoAgentCall]
    /\ completed_executions = << >>
    /\ executions = 0
    /\ token_query = NoCall

\* execute_agent from its call to the await of line 99: the profile is
\* looked up (lines 80-82), the context is built and budgeted (the call's
\* own context, see CheckTokenBudget), and the executor is awaited.
BeginExecution(p, a) ==
    /\ agent_call[p].at \in {"idle", "ended"}
    /\ executions < MaxExecutions
    /\ executions' = executions + 1
    /\ agent_call' = [agent_call EXCEPT ![p] =
          IF a \in agents
            THEN [at |-> "executing", agent_id |-> a]
            ELSE [at |-> "ended", agent_id |-> a,
                  outcome |-> Raised("ValueError")]]
    /\ UNCHANGED <<token_usage, completed_executions, token_query>>

\* execute_agent from the executor's result to its return (lines 106-114),
\* in one run of the event loop.
EndExecution(p, result) ==
    LET a == agent_call[p].agent_id
        tokens_used == Get(result, "tokens_used", DefaultTokens)
    IN  /\ agent_call[p].at = "executing"
        /\ token_usage' =
              Put(token_usage, a,
                  Accumulate(Get(token_usage, a, DefaultTokens),
                             tokens_used))
        /\ completed_executions' =
              Append(completed_executions,
                     [agent_id |-> a, tokens_used |-> tokens_used])
        /\ agent_call' = [agent_call EXCEPT ![p] =
              [at |-> "ended", agent_id |-> a, outcome |-> Returned(result)]]
        /\ UNCHANGED <<executions, token_query>>

\* The executor raises: the exception leaves execute_agent at line 99.
FailExecution(p) ==
    /\ agent_call[p].at = "executing"
    /\ agent_call' = [agent_call EXCEPT ![p] =
          [at |-> "ended", agent_id |-> agent_call[p].agent_id,
           outcome |-> Raised("executor error")]]
    /\ UNCHANGED <<token_usage, completed_executions, executions,
                   token_query>>

\* A call of execute_agent.
ExecuteAgent(p) ==
    /\ \E a \in AgentIds : BeginExecution(p, a)
    /\ UNCHANGED <<contextVars, spawnVars, delegVars, qualityVars,
                   factoryVars, taskVars>>
\* The executor gives its result.
ExecutorReturns(p) ==
    /\ agent_call[p].at = "executing"
    /\ EndExecution(p, DirectResult(agent_call[p].agent_id))
    /\ UNCHANGED <<contextVars, spawnVars, delegVars, qualityVars,
                   factoryVars, taskVars>>
ExecutorRaises(p) ==
    /\ FailExecution(p)
    /\ UNCHANGED <<contextVars, spawnVars, delegVars, qualityVars,
                   factoryVars, taskVars>>

\* A call of reset_token_usage, for one agent or ("") for all.  The
\* executions completed before it no longer count.
ResetTokenUsage ==
    /\ \E a \in AgentIds \cup {""} :
         /\ token_usage' = reset_token_usage(token_usage, a)
         /\ completed_executions' =
               SelectSeq(completed_executions,
                         LAMBDA x : a # "" /\ x.agent_id # a)
    /\ token_usage' # token_usage \/ completed_executions # << >>
    /\ UNCHANGED <<agent_call, executions, token_query>>
    /\ UNCHANGED <<contextVars, spawnVars, delegVars, qualityVars,
                   factoryVars, taskVars>>

\* A call of get_token_usage.
GetTokenUsage ==
    /\ \E a \in AgentIds \cup {""} :
         token_query' = [called |-> TRUE, agent_id |-> a,
                         result |-> get_token_usage(token_usage, a)]
    /\ UNCHANGED <<token_usage, agent_call, completed_executions,
                   executions>>
    /\ UNCHANGED <<contextVars, spawnVars, delegVars, qualityVars,
                   factoryVars, taskVars>>

\* --------------------------------------------------------- quality control

\* Scores, confidences and rates are in hundredths (70 is 0.7); latencies
\* are in milliseconds.

\* The thresholds validate_qa_response and validate_rule_evaluation compare
\* with (lines 129, 141, 157, 202, 220).
MinConfidence == 70
MinCitations == 1
DefaultMinCitationQuality == 85
MinOverallConfidence == 70
MinRequiredRate == 80

\* Configured gates explored: each key may be missing.
GateValues ==
    [min_citation_quality |-> {90},
     min_recall_at_5 |-> {85},
     fail_action |-> {"log", "block"}]
\* Configured min_confidence_threshold of the agent profile (base.py, line
\* 49; 70 when the profile does not set it).
ConfidenceThresholds == {50, 70, 90}

\* Citations of a Q&A result: up to two, each with or without a
\* relevance_score.  For these values every average is a whole number of
\* hundredths.
CitationValues == {<< >>} \cup {[relevance_score |-> x] : x \in {80, 90}}
CitationLists ==
    {<< >>} \cup {<<a>> : a \in CitationValues}
        \cup {<<a, b>> : a \in CitationValues, b \in CitationValues}
QaResults ==
    Dicts([confidence |-> {50, 60, 70, 80, 90},
           evidence_citations |-> CitationLists])
\* Rule-evaluation results, with or without a summary.
RuleSummaries ==
    Dicts([overallConfidence |-> {60, 70},
           requiredRulesPassed |-> {3, 4},
           requiredRulesTotal |-> {0, 5}])
RuleResults == {<< >>} \cup {[summary |-> sm] : sm \in RuleSummaries}
\* Retrieval results, with or without retrieval_stats.
RetrievalResults ==
    {<< >>} \cup {[retrieval_stats |-> st] :
                    st \in Dicts([avg_relevance_score |-> {80, 85, 90},
                                  documents_retrieved |-> {10}])}
\* Measured metrics handed to check_quality_gates: each at its default gate
\* or on the failing side of it.
GateMetrics ==
    Dicts([recall_at_5 |-> {84, 85},
           recall_at_10 |-> {89, 90},
           mrr |-> {89, 90},
           clinical_accuracy |-> {89, 90},
           p95_latency_ms |-> {5000, 5001},
           cache_hit_rate |-> {59, 60}])

RECURSIVE SumRelevance(_)
SumRelevance(cs) ==
    IF cs = << >> THEN 0
    ELSE Get(Head(cs), "relevance_score", 0) + SumRelevance(Tail(cs))

\* A failure string: the literal parts of its f-string and the values it
\* interpolates, in their order.
FailureString(literals, values) == [literals |-> literals, values |-> values]

\* A report that stays passed whatever failed.
CheckedAlwaysPassed(failures, metrics) ==
    [passed |-> TRUE, failures |-> failures, metrics |-> metrics]
\* A report as the validations build it: passed and the failure strings.
Checked(failures, metrics) ==
    [passed |-> failures = << >>, failures |-> failures,
     metrics |-> metrics]

\* The confidence check of validate_qa_response against a threshold.
ConfidenceFailure(confidence, min_confidence) ==
    IF confidence < min_confidence
      THEN <<FailureString(<<"Confidence ", " below threshold ">>,
                           <<confidence, min_confidence>>)>>
      ELSE << >>

\* validate_qa_response (lines 121-175): the report.
validate_qa_response(result) ==
    LET confidence == Get(result, "confidence", 0)
        evidence_citations == Get(result, "evidence_citations", << >>)
        n == Len(evidence_citations)
        avg_citation_relevance == SumRelevance(evidence_citations) \div n
        min_citation_quality ==
            Get(quality_gates, "min_citation_quality",
                DefaultMinCitationQuality)
        failures ==
            ConfidenceFailure(confidence, MinConfidence)
            \o (IF n < MinCitations
                  THEN <<FailureString(
                            <<"Citation count ", " below minimum ">>,
                            <<n, MinCitations>>)>>
                  ELSE << >>)
            \o (IF n > 0 /\ avg_citation_relevance < min_citation_quality
                  THEN <<FailureString(
                            <<"Citation quality ", " below threshold ">>,
                            <<avg_citation_relevance,
                              min_citation_quality>>)>>
                  ELSE << >>)
        metrics ==
            IF n > 0
              THEN [confidence |-> confidence, citation_count |-> n,
                    avg_citation_relevance |-> avg_citation_relevance]
              ELSE [confidence |-> confidence, citation_count |-> n]
    IN  Checked(failures, metrics)

\* The entry validate_qa_response appends to _response_metrics (168-173).
ResponseMetric(result) ==
    LET r == validate_qa_response(result) IN
    [confidence |-> r.metrics.confidence,
     citation_count |-> r.metrics.citation_count,
     avg_citation_relevance |-> Get(r.metrics, "avg_citation_relevance", 0)]

\* validate_rule_evaluation (lines 192-226): the report.
validate_rule_evaluation(result) ==
    LET summary == Get(result, "summary", << >>)
        overall_confidence == Get(summary, "overallConfidence", 0)
        required_passed == Get(summary, "requiredRulesPassed", 0)
        required_total == Get(summary, "requiredRulesTotal", 0)
        required_rate == (100 * required_passed) \div required_total
        failures ==
            (IF overall_confidence < MinOverallConfidence
               THEN <<FailureString(
                         <<"Overall confidence ", " below threshold ">>,
                         <<overall_confidence, MinOverallConfidence>>)>>
               ELSE << >>)
            \o (IF required_total > 0 /\ required_rate < MinRequiredRate
                  THEN <<FailureString(
                            <<"Required rules pass rate ", " is low">>,
                            <<required_rate>>)>>
                  ELSE << >>)
        metrics ==
            IF required_total > 0
              THEN [overall_confidence |-> overall_confidence,
                    required_rules_rate |-> required_rate]
              ELSE [overall_confidence |-> overall_confidence]
    IN  Checked(failures, metrics)

\* validate_retrieval_results (lines 76-104): the report.
validate_retrieval_results(result) ==
    LET retrieval_stats == Get(result, "retrieval_stats", << >>)
        avg_relevance == Get(retrieval_stats, "avg_relevance_score", 0)
        min_relevance == Get(quality_gates, "min_recall_at_5", 0)
        failures ==
            IF avg_relevance < min_relevance
              THEN <<FailureString(
                        <<"Average relevance ", " below threshold ">>,
                        <<avg_relevance, min_relevance>>)>>
              ELSE << >>
    IN  Checked(failures, [avg_relevance_score |-> avg_relevance])

\* The entry validate_retrieval_results appends to _retrieval_metrics.
RetrievalMetric(result) ==
    LET retrieval_stats == Get(result, "retrieval_stats", << >>) IN
    [avg_relevance_score |-> Get(retrieval_stats, "avg_relevance_score", 0),
     documents_retrieved |-> Get(retrieval_stats, "documents_retrieved", 0),
     documents_used |-> Get(retrieval_stats, "documents_used", 0)]

\* One gate of check_quality_gates: a measured value must not be below its
\* minimum (lines 299-330, 341-347).
MinGate(metrics, key, name, gate, default) ==
    IF key \in DOMAIN metrics /\ metrics[key] < Get(quality_gates, gate, default)
      THEN <<FailureString(<<name, " < ">>,
                           <<metrics[key],
                             Get(quality_gates, gate, default)>>)>>
      ELSE << >>
\* The latency gate: a measured value must not be above its maximum
\* (lines 333-339).
MaxGate(metrics, key, name, gate, default) ==
    IF key \in DOMAIN metrics /\ metrics[key] > Get(quality_gates, gate, default)
      THEN <<FailureString(<<name, " > ">>,
                           <<metrics[key],
                             Get(quality_gates, gate, default)>>)>>
      ELSE << >>

\* check_quality_gates (lines 293-353): the result.
check_quality_gates(metrics) ==
    LET failures ==
            MinGate(metrics, "recall_at_5", "Recall@5", "min_recall_at_5", 85)
            \o MinGate(metrics, "recall_at_10", "Recall@10",
                       "min_recall_at_10", 90)
            \o MinGate(metrics, "mrr", "MRR", "min_mrr", 90)
            \o MinGate(metrics, "clinical_accuracy", "Clinical accuracy",
                       "min_clinical_accuracy", 90)
            \o MaxGate(metrics, "p95_latency_ms", "P95 latency",
                       "max_p95_latency_ms", 5000)
            \o MinGate(metrics, "cache_hit_rate", "Cache hit rate",
                       "min_cache_hit_rate", 60)
    IN  [passed |-> failures = << >>, failures |-> failures]

NoValidation == [called |-> FALSE]
NoMetricsCall == [called |-> FALSE]

\* A controller of any configuration, as __init__ leaves it.
QualityInit ==
    /\ quality_gates \in Dicts(GateValues)
    /\ min_confidence_threshold \in ConfidenceThresholds
    /\ retrieval_metrics = << >>
    /\ response_metrics = << >>
    /\ failed_quality_gates = 0
    /\ validation_call = NoValidation
    /\ performance_metrics = << >>
    /\ total_requests = 0
    /\ cache_hits = 0
    /\ cache_misses = 0
    /\ metrics_call = NoMetricsCall

\* A controller without configured gates, as __init__ leaves it.
QualityIdle ==
    /\ quality_gates = << >>
    /\ min_confidence_threshold = 70
    /\ retrieval_metrics = << >>
    /\ response_metrics = << >>
    /\ failed_quality_gates = 0
    /\ validation_call = NoValidation
    /\ performance_metrics = << >>
    /\ total_requests = 0
    /\ cache_hits = 0
    /\ cache_misses = 0
    /\ metrics_call = NoMetricsCall

\* A call of validate_qa_response.
ValidateQaResponse ==
    /\ ~validation_call.called
    /\ \E r \in QaResults :
         /\ validation_call' =
              [called |-> TRUE, kind |-> "qa", result |-> r,
               report |-> validate_qa_response(r)]
         /\ response_metrics' = Append(response_metrics, ResponseMetric(r))
    /\ UNCHANGED <<retrieval_metrics, failed_quality_gates>>
    /\ UNCHANGED <<quality_gates, min_confidence_threshold, performanceVars>>
    /\ UNCHANGED <<spawnVars, delegVars, budgetVars, factoryVars, taskVars>>

\* A call of validate_rule_evaluation.
ValidateRuleEvaluation ==
    /\ ~validation_call.called
    /\ \E r \in RuleResults :
         validation_call' =
            [called |-> TRUE, kind |-> "rules", result |-> r,
             report |-> validate_rule_evaluation(r)]
    /\ UNCHANGED <<retrieval_metrics, response_metrics, failed_quality_gates>>
    /\ UNCHANGED <<quality_gates, min_confidence_threshold, performanceVars>>
    /\ UNCHANGED <<spawnVars, delegVars, budgetVars, factoryVars, taskVars>>

\* A call of validate_retrieval_results.
ValidateRetrievalResults ==
    /\ ~validation_call.called
    /\ \E r \in RetrievalResults :
         /\ validation_call' =
              [called |-> TRUE, kind |-> "retrieval", result |-> r,
               report |-> validate_retrieval_results(r)]
         /\ retrieval_metrics' = Append(retrieval_metrics, RetrievalMetric(r))
    /\ UNCHANGED <<response_metrics, failed_quality_gates>>
    /\ UNCHANGED <<quality_gates, min_confidence_threshold, performanceVars>>
    /\ UNCHANGED <<spawnVars, delegVars, budgetVars, factoryVars, taskVars>>

\* A call of check_quality_gates.
CheckQualityGates ==
    /\ ~validation_call.called
    /\ \E m \in GateMetrics :
         /\ validation_call' =
              [called |-> TRUE, kind |-> "gates", result |-> m,
               report |-> check_quality_gates(m)]
         /\ failed_quality_gates' =
              IF check_quality_gates(m).passed
                THEN failed_quality_gates
                ELSE failed_quality_gates + 1
    /\ UNCHANGED <<retrieval_metrics, response_metrics>>
    /\ UNCHANGED <<quality_gates, min_confidence_threshold, performanceVars>>
    /\ UNCHANGED <<spawnVars, delegVars, budgetVars, factoryVars, taskVars>>

\* ------------------------------------------------------ performance metrics

\* track_performance calls explored in a row; more than the buffer holds.
MaxTrackCalls == 1002
\* The first VariedSamples calls take any input; a later call repeats the
\* input of the call before it.
VariedSamples == 2

\* The length track_performance cuts the buffer back to (lines 384-385).
MaxRetainedSamples == 1000

\* latency_ms arguments explored, and with each its cache_hit argument: a
\* request served from the cache is the fast one.
Latencies == {120, 4000}
CacheHitOf(latency_ms) == latency_ms = 120

\* The sample track_performance appends (lines 376-381).  The timestamp is
\* the clock reading of the call; readings are compared for equality only,
\* so the number of the call stands for it.
Sample(n, latency_ms, tokens_used, cache_hit) ==
    [timestamp |-> n, latency_ms |-> latency_ms,
     tokens_used |-> tokens_used, cache_hit |-> cache_hit]

\* samples[-(n + 1):]
LastSamplesOffByOne(samples, n) ==
    IF Len(samples) > n + 1
      THEN SubSeq(samples, Len(samples) - n, Len(samples))
      ELSE samples
\* samples[-n:] for n > 0
LastSamples(samples, n) ==
    IF Len(samples) > n
      THEN SubSeq(samples, Len(samples) - n + 1, Len(samples))
      ELSE samples

\* 2^n mod m
RECURSIVE PowMod2(_, _)
PowMod2(n, m) == IF n = 0 THEN 1 % m ELSE (2 * PowMod2(n - 1, m)) % m
\* The largest j with x * 2^j <= y, and the largest with x * 2^j < y.
RECURSIVE DoublingsUpTo(_, _), DoublingsBelow(_, _)
DoublingsUpTo(x, y) == IF 2 * x <= y THEN 1 + DoublingsUpTo(2 * x, y) ELSE 0
DoublingsBelow(x, y) == IF 2 * x < y THEN 1 + DoublingsBelow(2 * x, y) ELSE 0
\* floor(log2(num / den)) for num, den > 0
Log2Floor(num, den) ==
    IF num >= den THEN DoublingsUpTo(den, num)
    ELSE 0 - (DoublingsBelow(num, den) + 1)
\* The digits d of scale = 10^d, and 5^d.
RECURSIVE DigitsOf(_), Pow5(_), Gcd5(_, _)
DigitsOf(scale) == IF scale = 1 THEN 0 ELSE 1 + DigitsOf(scale \div 10)
Pow5(d) == IF d = 0 THEN 1 ELSE 5 * Pow5(d - 1)
\* gcd(x, f) for f a power of 5
Gcd5(x, f) ==
    IF f = 1 \/ x % 5 # 0 THEN 1 ELSE 5 * Gcd5(x \div 5, f \div 5)

\* Whether the float num / den lies above the quotient q + 1/2 (in units)
\* it is the nearest float of.  The quotient is odd / (2^(d+1) * 5^d);
\* with the mantissa's 53 bits in front of the point, what is behind the
\* point is rem / m, and the division rounds up when that exceeds a half.
FloatAboveHalf(num, den, scale, q) ==
    LET odd == 2 * q + 1
        g == Gcd5(odd, Pow5(DigitsOf(scale)))
        m == Pow5(DigitsOf(scale)) \div g
        e == 52 - Log2Floor(num, den)
        rem == (((odd \div g) % m)
                  * PowMod2(e - (DigitsOf(scale) + 1), m)) % m
    IN  2 * rem > m
\* Whether that float is the quotient itself.
FloatIsHalf(scale, q) ==
    Gcd5(2 * q + 1, Pow5(DigitsOf(scale))) = Pow5(DigitsOf(scale))

\* round(num / den, digits), in units of 10^-digits, for num >= 0 and
\* den > 0 given in units.  round gives the decimal nearest to the float
\* that the division gives; when the float lies halfway, the even one.
RoundedRatio(num, den, scale) ==
    LET q == (scale * num) \div den
        r == (scale * num) % den
    IN  IF 2 * r < den THEN q
        ELSE IF 2 * r > den THEN q + 1
        ELSE IF FloatIsHalf(scale, q)
          THEN (IF q % 2 = 0 THEN q ELSE q + 1)
        ELSE IF FloatAboveHalf(num, den, scale, q) THEN q + 1
        ELSE q

\* sum(m[key] for m in ms[lo..hi]), by halves
RECURSIVE SumRange(_, _, _, _)
SumRange(ms, key, lo, hi) ==
    IF lo > hi THEN 0
    ELSE IF lo = hi THEN ms[lo][key]
    ELSE LET mid == (lo + hi) \div 2
         IN  SumRange(ms, key, lo, mid) + SumRange(ms, key, mid + 1, hi)
\* sum(m[key] for m in ms)
SumOf(ms, key) == SumRange(ms, key, 1, Len(ms))

\* sorted(latencies)[k], k counted from 0: the value with at most k values
\* below it and more than k values not above it.
SortedLatencyAt(samples, k) ==
    LET Below(v) == Cardinality({i \in 1..Len(samples) :
                                    samples[i].latency_ms < v})
        NotAbove(v) == Cardinality({i \in 1..Len(samples) :
                                       samples[i].latency_ms <= v})
    IN  CHOOSE v \in {samples[i].latency_ms : i \in 1..Len(samples)} :
            Below(v) <= k /\ k < NotAbove(v)

\* The list indices of lines 490-492.
P50Index(n) == n \div 2
P95Index(n) == (n * 95) \div 100
P99IndexCeiling(n) == (n * 99 + 99) \div 100
P99Index(n) == (n * 99) \div 100

\* _aggregate_performance_metrics (lines 472-495): what the call gives.
\* Rounded values are in units of their last digit.
aggregate_performance_metrics ==
    IF performance_metrics = << >>
      THEN Returned([avg_latency_ms |-> 0, p50_latency_ms |-> 0,
                     p95_latency_ms |-> 0, p99_latency_ms |-> 0,
                     cache_hit_rate |-> 0, avg_tokens_per_request |-> 0])
    ELSE
      LET n == Len(performance_metrics)
          total == cache_hits + cache_misses
          InRange(k) == k \in 0..(n - 1)
      IN  IF ~(InRange(P50Index(n)) /\ InRange(P95Index(n))
                  /\ InRange(P99Index(n)))
            THEN Raised("IndexError")
            ELSE Returned(
              [avg_latency_ms |->
                  RoundedRatio(SumOf(performance_metrics, "latency_ms"), n, 10),
               p50_latency_ms |->
                  SortedLatencyAt(performance_metrics, P50Index(n)),
               p95_latency_ms |->
                  SortedLatencyAt(performance_metrics, P95Index(n)),
               p99_latency_ms |->
                  SortedLatencyAt(performance_metrics, P99Index(n)),
               cache_hit_rate |->
                  IF total > 0 THEN RoundedRatio(cache_hits, total, 1000)
                  ELSE 0,
               avg_tokens_per_request |->
                  RoundedRatio(SumOf(performance_metrics, "tokens_used"),
                               n, 10)])

\* _aggregate_retrieval_metrics (lines 423-441); the recall and MRR figures
\* are the fixed ones of the code.
aggregate_retrieval_metrics ==
    IF retrieval_metrics = << >>
      THEN Returned([total_queries |-> 0, avg_relevance_score |-> 0,
                     recall_at_5 |-> 0, recall_at_10 |-> 0, mrr |-> 0])
      ELSE Returned(
             [total_queries |-> Len(retrieval_metrics),
              avg_relevance_score |->
                 RoundedRatio(SumOf(retrieval_metrics, "avg_relevance_score"),
                              Len(retrieval_metrics), 10),
              recall_at_5 |-> 87, recall_at_10 |-> 92, mrr |-> 91])

\* _aggregate_response_metrics (lines 445-468).
aggregate_response_metrics ==
    IF response_metrics = << >>
      THEN Returned([total_responses |-> 0, avg_confidence |-> 0,
                     avg_citation_count |-> 0])
      ELSE Returned(
             [total_responses |-> Len(response_metrics),
              avg_confidence |->
                 RoundedRatio(SumOf(response_metrics, "confidence"),
                              Len(response_metrics), 10),
              avg_citation_count |->
                 RoundedRatio(SumOf(response_metrics, "citation_count"),
                              Len(response_metrics), 10)])

\* get_metrics (lines 402-419): the three aggregates, or the exception of
\* the first one that raises.
get_metrics ==
    LET parts == <<aggregate_retrieval_metrics, aggregate_response_metrics,
                   aggregate_performance_metrics>>
        failed == {i \in 1..3 : parts[i].kind = "raised"}
    IN  IF failed # {}
          THEN parts[CHOOSE i \in failed : \A j \in failed : i <= j]
          ELSE Returned([retrieval_metrics |-> parts[1].value,
                         response_metrics |-> parts[2].value,
                         performance_metrics |-> parts[3].value])

\* Entries the validations have appended before the calls explored: none,
\* or those of two retrievals and of one Q&A response.
MetricsHistories ==
    {[retrieval |-> << >>, response |-> << >>],
     [retrieval |->
        <<RetrievalMetric([retrieval_stats |-> [avg_relevance_score |-> 80]]),
          RetrievalMetric(<< >>)>>,
      response |-> <<ResponseMetric([confidence |-> 85])>>]}

\* A controller which has validated some results and tracked no request.
MetricsInit ==
    /\ quality_gates = << >>
    /\ min_confidence_threshold = 70
    /\ \E h \in MetricsHistories :
          /\ retrieval_metrics = h.retrieval
          /\ response_metrics = h.response
    /\ failed_quality_gates = 0
    /\ validation_call = NoValidation
    /\ performance_metrics = << >>
    /\ total_requests = 0
    /\ cache_hits = 0
    /\ cache_misses = 0
    /\ metrics_call = NoMetricsCall

\* track_performance (lines 369-385).
TrackPerformance ==
    /\ total_requests < MaxTrackCalls
    /\ \E latency_ms \in Latencies :
         LET cache_hit == CacheHitOf(latency_ms) IN
         /\ (total_requests >= VariedSamples /\ performance_metrics # << >>)
               => latency_ms
                     = performance_metrics[Len(performance_metrics)].latency_ms
         /\ total_requests' = total_requests + 1
         /\ cache_hits' = IF cache_hit THEN cache_hits + 1 ELSE cache_hits
         /\ cache_misses' = IF cache_hit THEN cache_misses
                            ELSE cache_misses + 1
         /\ performance_metrics' =
              LastSamples(Append(performance_metrics,
                                 Sample(total_requests + 1, latency_ms,
                                        TokensUsed, cache_hit)),
                          MaxRetainedSamples)
    /\ metrics_call' = NoMetricsCall
    /\ UNCHANGED <<quality_gates, min_confidence_threshold, validationVars>>
    /\ UNCHANGED <<spawnVars, delegVars, budgetVars, factoryVars, taskVars>>

\* get_metrics; the dict it gives is its caller's.
GetMetrics ==
    /\ ~metrics_call.called
    /\ metrics_call' =
         [called |-> TRUE, samples |-> Len(performance_metrics),
          outcome |-> get_metrics]
    /\ UNCHANGED <<performance_metrics, total_requests, cache_hits,
                   cache_misses>>
    /\ UNCHANGED <<quality_gates, min_confidence_threshold, validationVars>>
    /\ UNCHANGED <<spawnVars, delegVars, budgetVars, factoryVars, taskVars>>

\* reset_metrics (lines 499-505).
ResetMetrics ==
    /\ total_requests > 0
    /\ retrieval_metrics' = << >>
    /\ response_metrics' = << >>
    /\ performance_metrics' = << >>
    /\ total_requests' = 0
    /\ failed_quality_gates' = 0
    /\ cache_hits' = 0
    /\ cache_misses' = 0
    /\ metrics_call' = NoMetricsCall
    /\ UNCHANGED <<quality_gates, min_confidence_threshold, validation_call>>
    /\ UNCHANGED <<spawnVars, delegVars, budgetVars, factoryVars, taskVars>>

\* ------------------------------------------------------------ entry points

NoTask == [at |-> "none"]

\* agent_type values of the profiles the entry points look for.
ProfileTypes == {"qa", "evaluation", "retrieval"}
EntryPoints == {"ask_question", "evaluate_rules", "retrieve_evidence"}
\* The task types of the entry points (lines 106, 173, 400).
FactoryTaskTypes == {"qa_response", "rule_evaluation", "evidence_retrieval"}

\* The task_type an entry point asks should_delegate about (lines 106, 173)
\* and the agent_type it looks up or spawns (lines 289, 327, 342, 378, 394).
TaskTypeOf(entry) ==
    IF entry = "ask_question" THEN "qa_response"
    ELSE IF entry = "evaluate_rules" THEN "rule_evaluation"
    ELSE "evidence_retrieval"
AgentTypeOf(entry) ==
    IF entry = "ask_question" THEN "qa"
    ELSE IF entry = "evaluate_rules" THEN "evaluation"
    ELSE "retrieval"

\* Word counts of the questions explored: a short one, and one long enough
\* for the default estimated_tokens_threshold.
QuestionWords == {5, 20001}
\* _estimate_complexity (lines 271-278), the keys should_delegate may read.
estimate_complexity(words) ==
    [word_count |-> words, estimated_tokens |-> words * 2]

\* The questions an entry point may be called with, by their word counts;
\* evaluate_rules and retrieve_evidence take no question.
QuestionsOf(entry) ==
    IF entry = "ask_question" THEN QuestionWords ELSE {0}
\* The estimated_complexity argument of an entry point (lines 107, 174).
ComplexityOf(entry, w) ==
    IF entry = "ask_question" THEN estimate_complexity(w)
    ELSE [multi_rule |-> TRUE]

\* A question of w words, each of one letter.
QuestionText(w) ==
    [i \in 1..(2 * w - 1) |-> IF i % 2 = 1 THEN "x" ELSE " "]
\* The inputs a delegating entry point hands to create_context_bundle
\* (lines 316-323, 367-375).
FactoryInputs(entry, w) ==
    IF entry = "ask_question" THEN QaInputs(QuestionText(w)) ELSE RuleInputs

\* Configurations of context_bundle_config explored with the entry points:
\* none, and one that truncates.
FactoryBundleConfigs ==
    {<< >>,
     [max_bundle_tokens |-> 30, compression_strategy |-> "truncate"]}
\* How create_context_bundle ends for the delegating entry points (lines
\* 316, 367): "returned", or the exception it raises.
BundleOutcomeKinds ==
    [cfg \in FactoryBundleConfigs |->
      [entry \in {"ask_question", "evaluate_rules"} |->
        [w \in QuestionWords \cup {0} |->
          [n \in IsoformatLengths |->
            LET made == create_context_bundle(
                           TaskTypeChars(TaskTypeOf(entry)), Text(n),
                           FactoryInputs(entry, w), TRUE, cfg)
            IN  IF made.kind = "raised" THEN made.exc ELSE "returned"]]]]

\* Whether the entry point takes the delegated path (lines 110, 177);
\* retrieve_evidence never asks (line 235).
Delegates(entry, cx) ==
    /\ entry # "retrieve_evidence"
    /\ should_delegate(TaskTypeOf(entry), cx)

\* The validation an entry point runs on its result (lines 128, 195, 244).
ValidationOf(entry, result) ==
    IF entry = "ask_question" THEN validate_qa_response(result)
    ELSE IF entry = "evaluate_rules" THEN validate_rule_evaluation(result)
    ELSE validate_retrieval_results(result)

\* fail_action as line 134 reads it.
FailAction == Get(quality_gates, "fail_action", "warn")

\* Whether a failed validation makes the entry point raise: ask_question
\* does under fail_action = block (lines 129-136); evaluate_rules and
\* retrieve_evidence only log (lines 196-199, 245-248).
Blocks(entry, report) ==
    entry = "ask_question" /\ ~report.passed /\ FailAction = "block"

\* result["agent_info"] = {..., "quality_validation": report}
WithReport(result, report) ==
    [k \in DOMAIN result \cup {"agent_info"} |->
        IF k = "agent_info" THEN [quality_validation |-> report]
        ELSE result[k]]

\* An entry point from the result of the execution to its end: validate,
\* raise under block, else attach the report and return.
ValidateAndEnd(p, entry, cx, path, ex, result) ==
    LET report == ValidationOf(entry, result) IN
    /\ task' = [task EXCEPT ![p] =
          [at |-> "ended", entry |-> entry, complexity |-> cx,
           path |-> path, exec |-> ex,
           result |-> result, validations |-> 1, report |-> report,
           outcome |-> IF Blocks(entry, report)
                         THEN Raised("ValueError")
                         ELSE Returned(WithReport(result, report))]]
    /\ validation_call' =
          [called |-> TRUE,
           kind |-> IF entry = "ask_question" THEN "qa"
                    ELSE IF entry = "evaluate_rules" THEN "rules"
                    ELSE "retrieval",
           result |-> result, report |-> report]
    /\ response_metrics' =
          IF entry = "ask_question"
            THEN Append(response_metrics, ResponseMetric(result))
            ELSE response_metrics
    /\ retrieval_metrics' =
          IF entry = "retrieve_evidence"
            THEN Append(retrieval_metrics, RetrievalMetric(result))
            ELSE retrieval_metrics
    /\ UNCHANGED <<failed_quality_gates, quality_gates,
                   min_confidence_threshold, performanceVars, agents>>

\* An entry point ended by an exception of the execution; no validation.
EndRaised(p, entry, cx, path, ex, e) ==
    /\ task' = [task EXCEPT ![p] =
          [at |-> "ended", entry |-> entry, complexity |-> cx,
           path |-> path, exec |-> ex,
           validations |-> 0, outcome |-> Raised(e)]]
    /\ UNCHANGED <<qualityVars, agents>>

\* An entry point from its call to its first suspension.  The delegated
\* path builds the bundle, which may raise, and runs into spawn_subagent.
\* The direct path looks up the agent (lines 289-291), raises ValueError
\* without one, and otherwise runs execute_agent up to its executor.
EntryPoint(p, entry) ==
    /\ task[p].at = "none"
    /\ \E w \in QuestionsOf(entry) :
         LET cx == ComplexityOf(entry, w) IN
         IF Delegates(entry, cx)
           THEN \E n \in IsoformatLengths :
                  LET made == BundleOutcomeKinds[context_bundle_config]
                                                [entry][w][n]
                  IN  IF made = "returned"
                        THEN /\ SpawnEntry(p, {AgentTypeOf(entry)})
                             /\ task' = [task EXCEPT ![p] =
                                   [at |-> "delegated", entry |-> entry,
                                    complexity |-> cx, path |-> "delegated"]]
                             /\ UNCHANGED <<qualityVars, agents, tokenVars>>
                        ELSE /\ pc[p] = "idle"
                             /\ NoneMidSegment
                             /\ EndRaised(p, entry, cx, "delegated", "none",
                                          made)
                             /\ UNCHANGED <<spawnVars, tokenVars>>
           ELSE /\ pc[p] = "idle"
                /\ NoneMidSegment
                /\ UNCHANGED spawnVars
                /\ IF AgentTypeOf(entry) \in agents
                     THEN /\ BeginExecution(p, AgentTypeOf(entry))
                          /\ task' = [task EXCEPT ![p] =
                                [at |-> "direct", entry |-> entry,
                                 complexity |-> cx, path |-> "direct"]]
                          /\ UNCHANGED <<qualityVars, agents>>
                     ELSE /\ EndRaised(p, entry, cx, "direct", "none",
                                       "ValueError")
                          /\ UNCHANGED tokenVars
    /\ UNCHANGED <<delegVars, contextVars, taskVars>>

AskQuestion(p) == EntryPoint(p, "ask_question")
EvaluateRules(p) == EntryPoint(p, "evaluate_rules")
RetrieveEvidence(p) == EntryPoint(p, "retrieve_evidence")

\* The executor of the direct path gives its result: execute_agent returns
\* and the entry point goes on (lines 120-146, 187-209, 235-258) in the
\* same run of the event loop.
DirectReturns(p) ==
    /\ task[p].at = "direct"
    /\ NoneMidSegment
    /\ EndExecution(p, DirectResult(agent_call[p].agent_id))
    /\ ValidateAndEnd(p, task[p].entry, task[p].complexity, "direct",
                      "finished", DirectResult(agent_call[p].agent_id))
    /\ UNCHANGED <<spawnVars, delegVars, contextVars, taskVars>>

\* The executor of the direct path raises: nothing on the way catches the
\* exception.
DirectRaises(p) ==
    /\ task[p].at = "direct"
    /\ NoneMidSegment
    /\ FailExecution(p)
    /\ EndRaised(p, task[p].entry, task[p].complexity, "direct", "raised",
                 "executor error")
    /\ UNCHANGED <<spawnVars, delegVars, contextVars, taskVars>>

\* spawn_subagent has ended: the delegating entry point goes on with its
\* outcome (lines 112-146, 179-209), in the same run of the event loop.
EndDelegated(p) ==
    /\ task[p].at = "delegated"
    /\ TakeOutcome(p)
    /\ IF outcome[p].kind = "raised"
         THEN EndRaised(p, task[p].entry, task[p].complexity, "delegated",
                        exec[p], outcome[p].exc)
         ELSE ValidateAndEnd(p, task[p].entry, task[p].complexity,
                             "delegated", exec[p], outcome[p].value)
    /\ UNCHANGED <<delegVars, budgetVars, taskVars>>

\* A factory with no call at hand; an empty configuration has no profiles.
FactoryIdle ==
    /\ agents = {}
    /\ task = [p \in Calls |-> NoTask]

\* A factory without profiles, or with one profile of each type.
FactoryInit ==
    /\ agents \in {{}, ProfileTypes}
    /\ task = [p \in Calls |-> NoTask]

\* The delegation settings and gates of the configurations explored.
FactoryDelegInit ==
    /\ force_delegate \in {{}, {"rule_evaluation"}, {"evidence_retrieval"},
                          FactoryTaskTypes}
    /\ never_delegate = {}
    /\ delegated_tasks \in {{}, {"qa_response"}}
    /\ thresholds = << >>
    /\ delegation_call = NoCall
FactoryBundleInit ==
    /\ context_bundle_config \in FactoryBundleConfigs
    /\ bundle_call = NoCall
FactoryQualityInit ==
    /\ quality_gates \in Dicts([fail_action |-> {"log", "block"},
                                min_recall_at_5 |-> {85}])
    /\ min_confidence_threshold = 70
    /\ retrieval_metrics = << >>
    /\ response_metrics = << >>
    /\ failed_quality_gates = 0
    /\ validation_call = NoValidation
    /\ performance_metrics = << >>
    /\ total_requests = 0
    /\ cache_hits = 0
    /\ cache_misses = 0
    /\ metrics_call = NoMetricsCall

\* ------------------------------------------------------------ task factory

\* Entries of one task's dependencies list.
MaxDependencies == 2

\* Task names of the configuration (enrichment, abstraction and the
\* deprecated qa_response) and a name no configuration defines.
TaskNames == {"enrichment", "abstraction", "qa_response"}
UndefinedTask == "non_existent_task"
\* The task_type of the tasks' definitions.
DefinedTypeOf(task_name) ==
    IF task_name = "qa_response" THEN "interrogation" ELSE task_name
DefaultRequired == FALSE
DefaultExecutedBy == "system"

\* A TaskDefinition under its key in task_definitions: the fields the code
\* reads.
TaskDefinition(task_name, deprecated, dependencies, inputs) ==
    [name |-> task_name, task_type |-> DefinedTypeOf(task_name),
     deprecated |-> deprecated, dependencies |-> dependencies,
     inputs |-> inputs]
\* What dict.get gives for a missing key.
None == [none |-> TRUE]

\* The keys of task_definitions in insertion order.
TaskKeys(defs) == [i \in 1..Len(defs) |-> defs[i].name]
DefinedTasks(defs) == {defs[i].name : i \in 1..Len(defs)}

\* get_task (lines 160-162).
get_task(defs, task_name) ==
    IF task_name \in DefinedTasks(defs)
      THEN defs[CHOOSE i \in 1..Len(defs) : defs[i].name = task_name]
      ELSE None

\* A dependency check that looks at no dependency.
NoneMissing(defs, dependencies) == TRUE
\* The loop of lines 207-209: the list names only defined tasks.
AllDefined(defs, dependencies) ==
    \A i \in 1..Len(dependencies) : dependencies[i] \in DefinedTasks(defs)

\* validate_task_dependencies (lines 201-210).
validate_task_dependencies(defs, task_name) ==
    LET task_def == get_task(defs, task_name)
    IN  IF task_def = None THEN FALSE
        ELSE AllDefined(defs, task_def.dependencies)

\* order.insert(0, task_name)
order_insert_first(order, task_name) == <<task_name>> \o order
\* order.append(task_name) (line 226)
order_append(order, task_name) == Append(order, task_name)

\* visit (lines 217-226) on the visited set and the order so far, and the
\* loops of lines 224-225 and 228-229 over a list of names.
RECURSIVE visit(_, _, _), VisitEach(_, _, _)
visit(defs, task_name, st) ==
    IF task_name \in st.visited THEN st
    ELSE LET entered == [st EXCEPT !.visited = @ \cup {task_name}]
             task_def == get_task(defs, task_name)
             after == IF task_def # None
                        THEN VisitEach(defs, task_def.dependencies, entered)
                        ELSE entered
         IN  [after EXCEPT !.order = order_append(@, task_name)]
VisitEach(defs, names, st) ==
    IF names = << >> THEN st
    ELSE VisitEach(defs, Tail(names), visit(defs, Head(names), st))

\* get_task_execution_order (lines 212-231).
get_task_execution_order(defs) ==
    VisitEach(defs, TaskKeys(defs), [visited |-> {}, order |-> << >>]).order

\* The lists of up to n distinct names of a set.
RECURSIVE ListsOf(_, _)
ListsOf(names, n) ==
    IF n = 0 THEN {<< >>}
    ELSE {<< >>} \cup
         UNION {{<<x>> \o l : l \in ListsOf(names \ {x}, n - 1)} :
                  x \in names}
\* The orders in which the keys can have been inserted.
KeyOrders ==
    {l \in ListsOf(TaskNames, Cardinality(TaskNames)) :
        Len(l) = Cardinality(TaskNames)}

\* The dependencies of the tasks: each task depends on up to
\* MaxDependencies other names, defined or not, cycles included.
DependencyGraphs ==
    {deps \in [TaskNames ->
                 ListsOf(TaskNames \cup {UndefinedTask}, MaxDependencies)] :
        \A t \in TaskNames : \A i \in 1..Len(deps[t]) : deps[t][i] # t}
\* Configurations of the three tasks in any key order.
OrderConfigs ==
    {[i \in 1..Len(keys) |->
         TaskDefinition(keys[i], FALSE, deps[keys[i]], << >>)] :
       keys \in KeyOrders, deps \in DependencyGraphs}

NoOrderCall == [called |-> FALSE]
NoTaskCall == [called |-> FALSE]

\* _validate_inputs (lines 254-259): a declared input marked required is
\* missing from the inputs.
RequiredInputMissing(task_def, inputs) ==
    \E input_name \in DOMAIN task_def.inputs :
        /\ Get(task_def.inputs[input_name], "required", DefaultRequired)
        /\ input_name \notin DOMAIN inputs

\* create_task_metadata (lines 121-129): the fields that do not depend on
\* the clock.
create_task_metadata(task_def, executed_by, status) ==
    [task_type |-> task_def.task_type, executed_by |-> executed_by,
     status |-> status]

\* What a registered handler does when called.
HandlerBehaviours == {"returns dict", "returns value", "raises"}

\* execute_task (lines 151-204) on the given definitions and registered
\* handler types: its outcome and the handler calls it made.
execute_task(defs, registered, task_name, inputs, behaviour) ==
    LET task_def == get_task(defs, task_name)
        Ends(e) == [outcome |-> Raised(e), handler_calls |-> 0]
        metadata ==
            create_task_metadata(task_def, DefaultExecutedBy, "completed")
    IN  IF task_def = None THEN Ends("ValueError")
        ELSE IF task_def.deprecated THEN Ends("ValueError")
        ELSE IF ~validate_task_dependencies(defs, task_name)
          THEN Ends("ValueError")
        ELSE IF task_def.task_type \notin registered
          THEN Ends("ValueError")
        ELSE IF RequiredInputMissing(task_def, inputs)
          THEN Ends("ValueError")
        ELSE [handler_calls |-> 1,
              outcome |->
                 IF behaviour = "raises" THEN Raised("handler error")
                 ELSE IF behaviour = "returns dict"
                   THEN Returned([finding |-> "value",
                                  task_metadata |-> metadata])
                   ELSE Returned([result |-> "value",
                                  task_metadata |-> metadata])]

\* The inputs specifications of a task definition: none, one required input
\* beside one that is not marked, and two required inputs.
InputSpecs ==
    {<< >>,
     [patient_id |-> [required |-> TRUE], question |-> [type |-> "string"]],
     [patient_id |-> [required |-> TRUE], question |-> [required |-> TRUE]]}
\* The inputs of a call.
TaskInputs ==
    {[k \in s |-> "test"] : s \in SUBSET {"patient_id", "question"}}

\* Configurations of two tasks in which either may be deprecated, may
\* depend on the other, on itself or on an undefined task, and declares any
\* of the inputs specifications.
FactoryTaskNames == {"abstraction", "qa_response"}
TaskConfigs ==
    {<<TaskDefinition("abstraction", dep[1], deps[1], ins[1]),
       TaskDefinition("qa_response", dep[2], deps[2], ins[2])>> :
       dep \in [1..2 -> BOOLEAN],
       deps \in [1..2 -> {<< >>, <<"qa_response">>, <<UndefinedTask>>}],
       ins \in [1..2 -> InputSpecs]}

\* A loader without tasks and a registry without handlers.
TasksIdle ==
    /\ task_definitions = << >>
    /\ handlers = {}
    /\ order_call = NoOrderCall
    /\ task_call = NoTaskCall

\* get_task_execution_order on the loader's definitions.
GetTaskExecutionOrder ==
    /\ ~order_call.called
    /\ order_call' =
         [called |-> TRUE,
          result |-> get_task_execution_order(task_definitions)]
    /\ UNCHANGED <<task_definitions, handlers, task_call>>
    /\ UNCHANGED <<spawnVars, delegVars, budgetVars, qualityVars,
                   factoryVars>>

\* TaskRegistry.register (line 43); the model keeps the registered types.
RegisterHandler ==
    /\ \E task_type \in {DefinedTypeOf(n) : n \in FactoryTaskNames} :
         /\ task_type \notin handlers
         /\ handlers' = handlers \cup {task_type}
    /\ UNCHANGED <<task_definitions, order_call, task_call>>
    /\ UNCHANGED <<spawnVars, delegVars, budgetVars, qualityVars,
                   factoryVars>>

\* execute_task with any task name and inputs, the handler behaving in any
\* way.
ExecuteTask ==
    /\ \E task_name \in FactoryTaskNames \cup {UndefinedTask},
          inputs \in TaskInputs, behaviour \in HandlerBehaviours :
         LET r == execute_task(task_definitions, handlers, task_name, inputs,
                               behaviour)
         IN  task_call' =
               [called |-> TRUE, task_name |-> task_name, inputs |-> inputs,
                registered |-> handlers, outcome |-> r.outcome,
                handler_calls |-> r.handler_calls]
    /\ UNCHANGED <<task_definitions, handlers, order_call>>
    /\ UNCHANGED <<spawnVars, delegVars, budgetVars, qualityVars,
                   factoryVars>>

\* ---------------------------------------------------------- specifications

\* Concurrent spawn_subagent calls on one engine.
Init ==
    /\ SpawnInit /\ DelegIdle /\ BundleIdle /\ BudgetIdle /\ TokensIdle
    /\ QualityIdle /\ FactoryIdle /\ TasksIdle
Next == SpawnNext
Spec == Init /\ [][Next]_vars

\* should_delegate on an engine of any configuration.
InitDelegate ==
    /\ DelegInit /\ BundleIdle /\ SpawnIdle /\ BudgetIdle /\ TokensIdle
    /\ QualityIdle /\ FactoryIdle /\ TasksIdle
NextDelegate == ShouldDelegate
SpecDelegate == InitDelegate /\ [][NextDelegate]_vars

\* The token-budget step of execute_agent, and _prune_context on its own.
InitBudget ==
    /\ BudgetInit /\ TokensIdle /\ SpawnIdle /\ DelegIdle /\ BundleIdle
    /\ QualityIdle /\ FactoryIdle /\ TasksIdle
NextBudget == CheckTokenBudget \/ PruneContext
SpecBudget == InitBudget /\ [][NextBudget]_vars

\* The validations and check_quality_gates on a controller of any
\* configuration.
InitQuality ==
    /\ QualityInit /\ SpawnIdle /\ DelegIdle /\ BundleIdle /\ BudgetIdle
    /\ TokensIdle /\ FactoryIdle /\ TasksIdle
NextQuality ==
    \/ ValidateQaResponse
    \/ ValidateRuleEvaluation
    \/ ValidateRetrievalResults
    \/ CheckQualityGates
SpecQuality == InitQuality /\ [][NextQuality]_vars

\* track_performance, get_metrics and reset_metrics on one controller.
InitMetrics ==
    /\ MetricsInit /\ SpawnIdle /\ DelegIdle /\ BundleIdle /\ BudgetIdle
    /\ TokensIdle /\ FactoryIdle /\ TasksIdle
NextMetrics == TrackPerformance \/ GetMetrics \/ ResetMetrics
SpecMetrics == InitMetrics /\ [][NextMetrics]_vars

\* create_context_bundle on an engine of any context_bundle_config.
InitBundle ==
    /\ BundleInit /\ SpawnIdle /\ DelegIdle /\ BudgetIdle /\ TokensIdle
    /\ QualityIdle /\ FactoryIdle /\ TasksIdle
NextBundle == CreateContextBundle
SpecBundle == InitBundle /\ [][NextBundle]_vars

\* Concurrent execute_agent calls on one manager, with reset_token_usage
\* and get_token_usage.
InitTokens ==
    /\ TokensIdle /\ BudgetIdle
    /\ agents = {"qa", "evaluation"}
    /\ task = [p \in Calls |-> NoTask]
    /\ SpawnIdle /\ DelegIdle /\ BundleIdle /\ QualityIdle /\ TasksIdle
NextTokens ==
    \/ \E p \in Calls : ExecuteAgent(p)
    \/ \E p \in Calls : ExecutorReturns(p)
    \/ \E p \in Calls : ExecutorRaises(p)
    \/ ResetTokenUsage
    \/ GetTokenUsage
SpecTokens == InitTokens /\ [][NextTokens]_vars

\* Concurrent entry-point calls on one factory, one per call frame.
InitFactory ==
    /\ FactoryInit /\ FactoryDelegInit /\ FactoryBundleInit
    /\ FactoryQualityInit /\ SpawnInit /\ BudgetIdle /\ TokensIdle
    /\ TasksIdle
NextFactory ==
    \/ \E p \in Calls : AskQuestion(p)
    \/ \E p \in Calls : EvaluateRules(p)
    \/ \E p \in Calls : RetrieveEvidence(p)
    \/ \E p \in Calls : Poll(p)
    \/ \E p \in Calls : Complete(p)
    \/ \E p \in Calls : Timeout(p)
    \/ \E p \in Calls : ExecRaises(p)
    \/ \E p \in Calls : Cancel(p)
    \/ \E p \in Calls : Cleanup(p)
    \/ \E p \in Calls : EndDelegated(p)
    \/ \E p \in Calls : DirectReturns(p)
    \/ \E p \in Calls : DirectRaises(p)
SpecFactory == InitFactory /\ [][NextFactory]_vars

\* The event loop's guarantees: a sleeping waiter wakes up and, if a slot is
\* still free then, takes it; an execution ends (by result, exception or
\* deadline); a handler reaches its finally block; a result is taken.
\* Nothing obliges a new call to arrive, or a caller to be cancelled.
Fairness ==
    \A p \in Calls :
        /\ WF_vars(Poll(p))
        /\ WF_vars(Complete(p) \/ Timeout(p) \/ ExecRaises(p))
        /\ WF_vars(Cleanup(p))
        /\ WF_vars(Return(p))
FairSpec == Init /\ [][Next]_vars /\ Fairness

\* Entry-point calls on a factory whose rule evaluations are delegated and
\* whose other tasks run directly, with one worker slot.
InitFairFactory ==
    /\ InitFactory
    /\ agents = ProfileTypes
    /\ force_delegate = {"rule_evaluation"}
    /\ delegated_tasks = {}
    /\ max_parallel_subagents = 1
    /\ quality_gates = << >>
    /\ context_bundle_config = << >>
\* The event loop's guarantees for the delegated path, as above; wait_for
\* bounds the worker by its deadline.  Nothing bounds the executor that
\* execute_agent awaits on the direct path (agent_manager.py, line 99):
\* no step of it is guaranteed.
FactoryFairness ==
    \A p \in Calls :
        /\ WF_vars(Poll(p))
        /\ WF_vars(Complete(p) \/ Timeout(p) \/ ExecRaises(p))
        /\ WF_vars(Cleanup(p))
        /\ WF_vars(EndDelegated(p))
FairSpecFactory == InitFairFactory /\ [][NextFactory]_vars /\ FactoryFairness

\* get_task_execution_order on a loader of any configuration.
InitOrder ==
    /\ task_definitions \in OrderConfigs
    /\ handlers = {}
    /\ order_call = NoOrderCall
    /\ task_call = NoTaskCall
    /\ SpawnIdle /\ DelegIdle /\ BundleIdle /\ BudgetIdle /\ TokensIdle
    /\ QualityIdle /\ FactoryIdle
NextOrder == GetTaskExecutionOrder
SpecOrder == InitOrder /\ [][NextOrder]_vars

\* execute_task and the registration of handlers on a factory of any
\* configuration.
InitTasks ==
    /\ task_definitions \in TaskConfigs
    /\ handlers = {}
    /\ order_call = NoOrderCall
    /\ task_call = NoTaskCall
    /\ SpawnIdle /\ DelegIdle /\ BundleIdle /\ BudgetIdle /\ TokensIdle
    /\ QualityIdle /\ FactoryIdle
NextTasks == RegisterHandler \/ ExecuteTask
SpecTasks == InitTasks /\ [][NextTasks]_vars

\* ------------------------------------------------------------------ claims

RegistrySize == Cardinality(DOMAIN active_subagents)
TerminalStatuses == {"completed", "failed", "timeout"}

\* C1: in every reachable state the registry holds at most
\* max_parallel_subagents handles, and so at most that many handles in
\* status running, whatever the interleaving of the calls.
C1_RegistryBounded ==
    /\ RegistrySize <= max_parallel_subagents
    /\ Cardinality({id \in DOMAIN active_subagents :
                       active_subagents[id].status = "running"})
           <= max_parallel_subagents
\* The registry is full and a further call is held back.
C1_Witness ==
    /\ RegistrySize = max_parallel_subagents
    /\ \E p \in Calls : pc[p] = "waiting"

\* C2: once a call has ended (result, exception, timeout or cancellation of
\* the caller) the handle it registered is not in the registry, and every
\* handle in the registry belongs to a call still inside its try statement.
C2_EndedCallsDeregistered ==
    /\ \A p \in Calls : pc[p] \in {"done", "idle", "waiting"} =>
          \A id \in DOMAIN active_subagents : active_subagents[id].owner # p
    /\ \A id \in DOMAIN active_subagents :
          pc[active_subagents[id].owner] \in {"executing", "cleanup"}
\* A call has ended after a timeout while another call still runs.
C2_Witness ==
    \E p, q \in Calls :
        /\ pc[p] = "done" /\ exec[p] = "cancelled_on_timeout"
        /\ pc[q] = "executing"
        /\ RegistrySize = 1

\* C3 as written: a handle is PENDING when it is created, moves from PENDING
\* to RUNNING to one terminal status, and leaves the registry only with a
\* terminal status.
C3_PendingRunningTerminal ==
    [][/\ \A id \in DOMAIN active_subagents' :
            IF /\ id \in DOMAIN active_subagents
               /\ active_subagents[id].owner = active_subagents'[id].owner
              THEN \/ active_subagents'[id].status = active_subagents[id].status
                   \/ /\ active_subagents[id].status = "pending"
                      /\ active_subagents'[id].status = "running"
                   \/ /\ active_subagents[id].status = "running"
                      /\ active_subagents'[id].status \in TerminalStatuses
              ELSE active_subagents'[id].status = "pending"
       /\ \A id \in DOMAIN active_subagents \ DOMAIN active_subagents' :
            active_subagents[id].status \in TerminalStatuses]_vars
\* C3 as amended: a handle is created in status running; its status changes
\* at most once, from running to completed, failed or timeout, and never
\* after that.
C3_RunningThenAtMostOneTerminal ==
    [][\A id \in DOMAIN active_subagents' :
          IF /\ id \in DOMAIN active_subagents
             /\ active_subagents[id].owner = active_subagents'[id].owner
            THEN \/ active_subagents'[id].status = active_subagents[id].status
                 \/ /\ active_subagents[id].status = "running"
                    /\ active_subagents'[id].status \in TerminalStatuses
            ELSE active_subagents'[id].status = "running"]_vars
\* A handle stands in a terminal status, set by its own call's handler.
C3_Witness ==
    \E id \in DOMAIN active_subagents :
        /\ active_subagents[id].status = "timeout"
        /\ pc[active_subagents[id].owner] = "cleanup"

\* C4: a call whose execution timed out or threw does not raise: it returns
\* a payload with the error text and the worker id, and after a timeout with
\* the configured timeout value.
C4_FailuresReturnPayload ==
    \A p \in Calls :
        (pc[p] = "done" /\ exec[p] \in {"raised", "cancelled_on_timeout"}) =>
            /\ outcome[p].kind = "returned"
            /\ "error" \in DOMAIN outcome[p].value
            /\ outcome[p].value.subagent_id = subagent_id[p]
            /\ exec[p] = "cancelled_on_timeout" =>
                  outcome[p].value.timeout = subagent_timeout_seconds

\* C5: a call held back by a full registry gets past the wait once a slot is
\* free.
C5_BlockedCallProceeds ==
    \A p \in Calls :
        (pc[p] = "waiting" /\ ~SlotFull(RegistrySize, max_parallel_subagents))
            ~> (pc[p] # "waiting")

\* C6: after spawn_subagent has returned a timeout payload, the execution it
\* started is not running any more.
C6_TimedOutExecutionStopped ==
    \A p \in Calls :
        (/\ pc[p] = "done"
         /\ outcome[p] = Returned(TimeoutPayload(subagent_id[p],
                                                  subagent_timeout_seconds)))
            => exec[p] # "running"
\* A call has returned the timeout payload.
C6_Witness ==
    \E p \in Calls :
        /\ pc[p] = "done"
        /\ outcome[p] = Returned(TimeoutPayload(subagent_id[p],
                                                 subagent_timeout_seconds))


\* What the latest call had for each complexity value and threshold.
CallValue(k, default) == Get(delegation_call.complexity, k, default)
Threshold(k, default) == Get(thresholds, k, default)
AllThresholdsExceeded ==
    /\ CallValue("estimated_tokens", DefaultEstimatedTokens)
          > Threshold("estimated_tokens_threshold", DefaultTokensThreshold)
    /\ CallValue("num_sources", DefaultNumSources)
          > Threshold("multi_source_threshold", DefaultMultiSourceThreshold)
    /\ CallValue("reasoning_depth", DefaultReasoningDepth)
          > Threshold("reasoning_depth_threshold", DefaultDepthThreshold)
NoThresholdExceeded ==
    /\ CallValue("estimated_tokens", DefaultEstimatedTokens)
          <= Threshold("estimated_tokens_threshold", DefaultTokensThreshold)
    /\ CallValue("num_sources", DefaultNumSources)
          <= Threshold("multi_source_threshold", DefaultMultiSourceThreshold)
    /\ CallValue("reasoning_depth", DefaultReasoningDepth)
          <= Threshold("reasoning_depth_threshold", DefaultDepthThreshold)

\* C7: for a task type in force_delegate, should_delegate returns true for
\* every complexity, whether or not the type is in the delegated task set.
C7_ForceDelegates ==
    (delegation_call.called /\ delegation_call.task_type \in force_delegate)
        => delegation_call.result = TRUE
\* A forced type that is also in never_delegate and not in the delegated
\* task set, with no threshold exceeded.
C7_Witness ==
    /\ delegation_call.called
    /\ delegation_call.task_type \in force_delegate \cap never_delegate
    /\ delegation_call.task_type \notin delegated_tasks
    /\ NoThresholdExceeded
    /\ delegation_call.result = TRUE

\* C8 as written: for a task type in never_delegate, should_delegate returns
\* false for every complexity.
C8_NeverDelegates ==
    (delegation_call.called /\ delegation_call.task_type \in never_delegate)
        => delegation_call.result = FALSE
\* C8 as amended: for a task type in never_delegate and not in
\* force_delegate, should_delegate returns false for every complexity.
C8_NeverDelegatesUnlessForced ==
    (/\ delegation_call.called
     /\ delegation_call.task_type \in never_delegate \ force_delegate)
        => delegation_call.result = FALSE
\* A never-delegate type of the delegated task set with every threshold
\* exceeded.
C8_Witness ==
    /\ delegation_call.called
    /\ delegation_call.task_type \in never_delegate \ force_delegate
    /\ delegation_call.task_type \in delegated_tasks
    /\ AllThresholdsExceeded
    /\ delegation_call.result = FALSE

\* C9: for a task type in neither list, should_delegate returns false when
\* the type is not in the delegated task set, and otherwise true exactly
\* when some complexity value is strictly greater than its threshold.
C9_ThresholdDecision ==
    (/\ delegation_call.called
     /\ delegation_call.task_type \notin force_delegate \cup never_delegate)
        => (delegation_call.result = TRUE
              <=> /\ delegation_call.task_type \in delegated_tasks
                  /\ ~NoThresholdExceeded)
\* A delegated type whose estimated_tokens equals the threshold, with the
\* other values below theirs: not delegated.
C9_Witness ==
    /\ delegation_call.called
    /\ delegation_call.task_type
          \in delegated_tasks \ (force_delegate \cup never_delegate)
    /\ CallValue("estimated_tokens", DefaultEstimatedTokens)
          = Threshold("estimated_tokens_threshold", DefaultTokensThreshold)
    /\ NoThresholdExceeded
    /\ delegation_call.result = FALSE

\* C10 as written: _prune_context returns a context whose estimate is within
\* the target as it was: the same primed_knowledge in the same order, the
\* same prompts, inputs and tools.
C10_PruneKeepsContextWithinTarget ==
    (/\ prune_call.called
     /\ estimate_tokens(prune_call.context) <= prune_call.target_tokens)
        => prune_call.result = prune_call.context
\* C10 as amended: execute_agent leaves a context whose estimate is within
\* max_tokens as it was built, since it calls _prune_context only for an
\* estimate above max_tokens.
C10_BudgetStepKeepsContextWithinBudget ==
    (stage = "budgeted" /\ estimate_tokens(context_in) <= max_tokens)
        => /\ context = context_in
           /\ ~prune_call.called
\* The budget step has passed on, as built, a context that sits exactly at
\* max_tokens and that _prune_context would have changed.
C10_Witness ==
    /\ stage = "budgeted"
    /\ estimate_tokens(context_in) = max_tokens
    /\ prune_context(context_in, max_tokens) # context_in
    /\ context = context_in

\* The policy values _prune_context works with.
MaxDocumentsOf ==
    Get(pruning_policy, "max_documents_per_query", DefaultMaxDocuments)
MinRelevanceOf ==
    Get(pruning_policy, "min_relevance_score", DefaultMinRelevanceScore)
\* Entry i of ks comes before entry j when ranked by relevance, entries of
\* equal relevance by position.
RanksBefore(ks, i, j) ==
    \/ RelevanceOf(ks[i]) > RelevanceOf(ks[j])
    \/ RelevanceOf(ks[i]) = RelevanceOf(ks[j]) /\ i < j
\* The positions of ks among its top MaxDocumentsOf entries that score at
\* least MinRelevanceOf.
TopScoring(ks) ==
    {j \in 1..Len(ks) :
        /\ Cardinality({i \in 1..Len(ks) : RanksBefore(ks, i, j)})
              < MaxDocumentsOf
        /\ RelevanceOf(ks[j]) >= MinRelevanceOf}

\* C11: _prune_context applied to its own result returns that result: the
\* same primed_knowledge entries in the same order, entries of equal
\* relevance included, and the same prompts, inputs and tools.
C11_PruneIdempotent ==
    stage = "pruned twice" => prune_call.result = prune_call.context
\* A second pruning of a context that the first pruning changed and that
\* holds two entries of equal relevance.
C11_Witness ==
    /\ stage = "pruned twice"
    /\ prune_call.context # context_in
    /\ \E i, j \in 1..Len(prune_call.result.primed_knowledge) :
          /\ i < j
          /\ RelevanceOf(prune_call.result.primed_knowledge[i])
                = RelevanceOf(prune_call.result.primed_knowledge[j])

\* C12: after _prune_context, primed_knowledge is sorted by relevance
\* descending, holds at most max_documents_per_query entries and none below
\* min_relevance_score, and holds exactly those of the top
\* max_documents_per_query entries of the input that score at least
\* min_relevance_score.
C12_PrunedKnowledge ==
    prune_call.called =>
        LET ks == prune_call.context.primed_knowledge
            r == prune_call.result.primed_knowledge
        IN  /\ \A i, j \in 1..Len(r) :
                  i < j => RelevanceOf(r[i]) >= RelevanceOf(r[j])
            /\ Len(r) <= MaxDocumentsOf
            /\ \A i \in 1..Len(r) : RelevanceOf(r[i]) >= MinRelevanceOf
            /\ {r[i] : i \in 1..Len(r)} = {ks[j] : j \in TopScoring(ks)}
            /\ Len(r) = Cardinality(TopScoring(ks))
\* More entries score at least the minimum than the cap admits, and the
\* result holds exactly as many as the cap.
C12_Witness ==
    /\ prune_call.called
    /\ Cardinality({j \in 1..Len(prune_call.context.primed_knowledge) :
          RelevanceOf(prune_call.context.primed_knowledge[j])
              >= MinRelevanceOf}) > MaxDocumentsOf
    /\ Len(prune_call.result.primed_knowledge) = MaxDocumentsOf
    /\ prune_call.result.primed_knowledge
          # Prefix(prune_call.context.primed_knowledge, MaxDocumentsOf)

\* C13: when the budget step of execute_agent is over and the executor is
\* about to be called, the estimate of the context at hand is at most
\* max_tokens.
C13_ContextWithinBudgetBeforeExecution ==
    stage = "budgeted" => estimate_tokens(context) <= max_tokens

\* A failure string shows the value x.
Names(f, x) == \E i \in 1..Len(f.values) : f.values[i] = x
\* The number of conditions of cs that hold.
CountTrue(cs) == Cardinality({i \in 1..Len(cs) : cs[i]})

\* C16: validate_qa_response on a result whose confidence is below the
\* configured min_confidence_threshold gives passed = false and a failure
\* string that names the confidence and that threshold; on a confidence at
\* or above the configured threshold it gives no confidence failure.
C16_ConfiguredConfidenceThreshold ==
    (validation_call.called /\ validation_call.kind = "qa") =>
        LET confidence == Get(validation_call.result, "confidence", 0)
            failures == validation_call.report.failures
        IN  IF confidence < min_confidence_threshold
              THEN /\ validation_call.report.passed = FALSE
                   /\ \E i \in 1..Len(failures) :
                         /\ Names(failures[i], confidence)
                         /\ Names(failures[i], min_confidence_threshold)
              ELSE \A i \in 1..Len(failures) :
                      failures[i].literals[1] # "Confidence "

\* The checks the latest validation performed, each TRUE when it failed.
FailedChecks ==
    LET r == validation_call.result
        kind == validation_call.kind
    IN  IF kind = "qa"
          THEN LET cs == Get(r, "evidence_citations", << >>) IN
               <<Get(r, "confidence", 0) < 70,
                 Len(cs) < 1,
                 /\ Len(cs) > 0
                 /\ SumRelevance(cs)
                       < Len(cs) * Get(quality_gates, "min_citation_quality",
                                       85)>>
        ELSE IF kind = "rules"
          THEN LET sm == Get(r, "summary", << >>) IN
               <<Get(sm, "overallConfidence", 0) < 70,
                 /\ Get(sm, "requiredRulesTotal", 0) > 0
                 /\ 10 * Get(sm, "requiredRulesPassed", 0)
                       < 8 * Get(sm, "requiredRulesTotal", 0)>>
        ELSE IF kind = "retrieval"
          THEN <<Get(Get(r, "retrieval_stats", << >>),
                     "avg_relevance_score", 0)
                    < Get(quality_gates, "min_recall_at_5", 0)>>
        ELSE <<"recall_at_5" \in DOMAIN r
                  /\ r.recall_at_5 < Get(quality_gates, "min_recall_at_5", 85),
               "recall_at_10" \in DOMAIN r /\ r.recall_at_10 < 90,
               "mrr" \in DOMAIN r /\ r.mrr < 90,
               "clinical_accuracy" \in DOMAIN r /\ r.clinical_accuracy < 90,
               "p95_latency_ms" \in DOMAIN r /\ r.p95_latency_ms > 5000,
               "cache_hit_rate" \in DOMAIN r /\ r.cache_hit_rate < 60>>

\* C17: in the report of every validation (retrieval, Q&A, rule evaluation)
\* and of check_quality_gates, passed is true exactly when the failures list
\* is empty, exactly when no performed check failed, and the list holds one
\* failure string for each failing check.
C17_PassedIsConjunctionOfChecks ==
    validation_call.called =>
        /\ validation_call.report.passed
              <=> (validation_call.report.failures = << >>)
        /\ validation_call.report.passed <=> (CountTrue(FailedChecks) = 0)
        /\ Len(validation_call.report.failures) = CountTrue(FailedChecks)
\* A Q&A validation in which two checks failed and one did not.
C17_Witness ==
    /\ validation_call.called
    /\ validation_call.kind = "qa"
    /\ CountTrue(FailedChecks) = 2
    /\ Len(validation_call.report.failures) = 2
    /\ validation_call.report.passed = FALSE

\* C18: after n track_performance calls (since the controller was made or
\* reset) the buffer holds min(n, 1000) samples, those of the latest calls
\* in the order of their arrival, and never more than 1000.
C18_BufferHoldsLatestSamples ==
    LET n == total_requests
        kept == IF n < MaxRetainedSamples THEN n ELSE MaxRetainedSamples
    IN  /\ Len(performance_metrics) = kept
        /\ Len(performance_metrics) <= MaxRetainedSamples
        /\ \A i \in 1..kept :
              performance_metrics[i].timestamp = n - kept + i
\* More calls than the buffer holds: the two oldest samples are gone.
C18_Witness ==
    /\ total_requests = MaxRetainedSamples + 2
    /\ Len(performance_metrics) = MaxRetainedSamples
    /\ performance_metrics[1].timestamp = 3

\* C19: get_metrics raises for no buffer contents: without samples the
\* performance figures are all zero, and with n >= 1 samples the p50, p95
\* and p99 indices n // 2, floor(0.95 n) and floor(0.99 n) lie within
\* 0..n-1.
C19_AggregationNeverFails ==
    metrics_call.called =>
        LET n == metrics_call.samples IN
        /\ metrics_call.outcome.kind = "returned"
        /\ n = 0 =>
              metrics_call.outcome.value.performance_metrics
                = [avg_latency_ms |-> 0, p50_latency_ms |-> 0,
                   p95_latency_ms |-> 0, p99_latency_ms |-> 0,
                   cache_hit_rate |-> 0, avg_tokens_per_request |-> 0]
        /\ n >= 1 =>
              /\ {n \div 2, (95 * n) \div 100, (99 * n) \div 100}
                    \subseteq 0..(n - 1)
              /\ metrics_call.outcome.value.performance_metrics.p99_latency_ms
                    \in Latencies
\* Metrics were aggregated over a full buffer of samples that differ in
\* latency, and over the entries of earlier validations.
C19_Witness ==
    /\ metrics_call.called
    /\ metrics_call.samples = MaxRetainedSamples
    /\ total_requests > MaxRetainedSamples
    /\ retrieval_metrics # << >>
    /\ metrics_call.outcome.kind = "returned"
    /\ metrics_call.outcome.value.performance_metrics.p99_latency_ms
          = 4000

\* C14: an entry-point call whose validation failed raises when fail_action
\* is block, whatever the task kind, and returns its result under any other
\* fail_action.
C14_BlockRaisesOnQualityFailure ==
    \A p \in Calls :
        (/\ task[p].at = "ended"
         /\ task[p].validations = 1
         /\ ~task[p].report.passed)
            => (task[p].outcome.kind = "raised" <=> FailAction = "block")

\* The execution of the call's task has come to an end: the executor or the
\* worker has given a result, has thrown or has timed out.
Executed(p) == task[p].exec \in {"finished", "raised", "cancelled_on_timeout"}

\* C15: an entry-point call whose task was executed has run exactly one
\* validation, also when the worker timed out or failed; no call runs more
\* than one; and the report attached to a returned result is that of the
\* call's validation of that result.
C15_OneReportPerExecution ==
    \A p \in Calls :
        task[p].at = "ended" =>
            /\ task[p].validations <= 1
            /\ Executed(p) => task[p].validations = 1
            /\ task[p].outcome.kind = "returned" =>
                  /\ task[p].validations = 1
                  /\ task[p].outcome.value.agent_info.quality_validation
                        = task[p].report
                  /\ task[p].report
                        = ValidationOf(task[p].entry, task[p].result)

\* C20: an entry-point call whose agent type has no profile ends with the
\* configuration error before any execution: it registers no worker and
\* starts no executor, on the direct and on the delegated path.
C20_MissingProfileRaisesBeforeExecution ==
    \A p \in Calls :
        (task[p].at # "none" /\ AgentTypeOf(task[p].entry) \notin agents)
            => /\ task[p].at = "ended"
               /\ task[p].outcome = Raised("ValueError")
               /\ task[p].exec = "none"
               /\ \A id \in DOMAIN active_subagents :
                     active_subagents[id].owner # p

\* ----------------------------------------------- claims: context bundles

\* The bundle of the call at hand before any compression, and the cap and
\* the strategy its configuration gives.
CalledPlainBundle ==
    PlainBundle(TaskTypeChars(bundle_call.task_type), bundle_call.created_at,
                bundle_call.inputs, bundle_call.include_reasoning,
                context_bundle_config)
MaxBundleTokensOf ==
    Get(context_bundle_config, "max_bundle_tokens", DefaultMaxBundleTokens)
CompressionStrategyOf ==
    Get(context_bundle_config, "compression_strategy",
        DefaultCompressionStrategy)

\* C21: every bundle create_context_bundle returns has an estimated token
\* count of at most max_bundle_tokens, whatever the compression strategy
\* and the size of the inputs.
C21_BundleWithinMaxTokens ==
    (bundle_call.called /\ bundle_call.outcome.kind = "returned")
        => estimate_bundle_tokens(bundle_call.outcome.value)
              <= MaxBundleTokensOf

\* C22: when the serialised bundle exceeds max_bundle_tokens and the
\* strategy is truncate, create_context_bundle returns without raising a
\* well-formed bundle that still carries task_type, bundle_id and
\* created_at.
C22_TruncateReturnsWellFormedBundle ==
    ( /\ bundle_call.called
      /\ CompressionStrategyOf = "truncate"
      /\ estimate_bundle_tokens(CalledPlainBundle) > MaxBundleTokensOf )
        => /\ bundle_call.outcome.kind = "returned"
           /\ {KeyChars.task_type, KeyChars.bundle_id, KeyChars.created_at}
                 \subseteq KeysOf(bundle_call.outcome.value)

\* ------------------------------------------------- claims: path and deadline

\* C23: an entry-point call takes the delegated path, through a spawned
\* worker, exactly when should_delegate holds for its task type and
\* complexity, and the direct path through execute_agent otherwise; no call
\* takes both.
C23_PathFollowsShouldDelegate ==
    \A p \in Calls :
        task[p].at # "none" =>
            /\ task[p].path = "delegated"
                  <=> should_delegate(TaskTypeOf(task[p].entry),
                                      task[p].complexity)
            /\ task[p].path = "delegated" => agent_call[p].at = "idle"
            /\ task[p].path = "direct" =>
                  /\ pc[p] = "idle"
                  /\ exec[p] = "none"
                  /\ \A id \in DOMAIN active_subagents :
                        active_subagents[id].owner # p

\* C24: every entry-point call under way eventually returns or raises, on
\* the direct path as on the delegated one, also when the executor never
\* completes: a deadline ends the wait.
C24_EveryCallEnds ==
    \A p \in Calls :
        (task[p].at \in {"direct", "delegated"}) ~> (task[p].at = "ended")

\* ---------------------------------------------------- claims: token usage

\* The counter of an agent, and the tokens of its executions completed
\* since the last reset.
UsageOf(a) == Get(token_usage, a, DefaultTokens)
CompletedTokens(a) ==
    SumOf(SelectSeq(completed_executions, LAMBDA x : x.agent_id = a),
          "tokens_used")

\* C25: whatever the interleaving of execute_agent calls, each agent's
\* counter is the sum of tokens_used over its executions completed since
\* the last reset, and only the completion of execute_agent and
\* reset_token_usage change a counter.
C25_TokenUsageIsSumOfCompleted ==
    /\ [](\A a \in AgentIds : UsageOf(a) = CompletedTokens(a))
    /\ [][token_usage' # token_usage
            => (ResetTokenUsage \/ \E p \in Calls : ExecutorReturns(p))]_vars
\* Two executions of one agent have completed, a third of the same agent is
\* under way, and the counter holds the tokens of the two.
C25_Witness ==
    /\ UsageOf("qa") = 2 * TokensUsed
    /\ Len(completed_executions) = 2
    /\ \E p \in Calls :
          agent_call[p] = [at |-> "executing", agent_id |-> "qa"]

\* ------------------------------------------------ claims: cache hit rate

\* The retained samples served from the cache.
RetainedHits ==
    Cardinality({i \in 1..Len(performance_metrics) :
                    performance_metrics[i].cache_hit})

\* C26: the cache_hit_rate that get_metrics gives is the fraction of the
\* retained samples whose cache_hit is true (rounded to three digits),
\* also after more track_performance calls than the buffer holds.
C26_CacheHitRateOverRetainedSamples ==
    ( /\ metrics_call.called
      /\ metrics_call.outcome.kind = "returned"
      /\ performance_metrics # << >> )
        => metrics_call.outcome.value.performance_metrics.cache_hit_rate
              = RoundedRatio(RetainedHits, Len(performance_metrics), 1000)

\* The number of entries of the list ks equal to x.
Occurrences(ks, x) == Cardinality({i \in 1..Len(ks) : ks[i] = x})
\* Every entry of r is an entry of ks, as many times at most.
IsSubCollection(r, ks) ==
    \A i \in 1..Len(r) : Occurrences(r, r[i]) <= Occurrences(ks, r[i])
\* The temporal_window_days _prune_context works with.
TemporalWindowDaysOf ==
    Get(pruning_policy, "temporal_window_days", DefaultTemporalWindowDays)

\* C27: _prune_context returns the context's system_prompt, domain_prompt,
\* tools and inputs as they were, for every temporal_window_days, and a
\* primed_knowledge that is a sub-collection of the original entries.
C27_PruneChangesOnlyPrimedKnowledge ==
    prune_call.called =>
        LET c == prune_call.context
            r == prune_call.result
        IN  /\ DOMAIN r = DOMAIN c
            /\ r.system_prompt = c.system_prompt
            /\ r.domain_prompt = c.domain_prompt
            /\ r.tools = c.tools
            /\ r.inputs = c.inputs
            /\ IsSubCollection(r.primed_knowledge, c.primed_knowledge)
\* A pruning, with the temporal step taken, that dropped some entries of
\* primed_knowledge and kept others.
C27_Witness ==
    /\ prune_call.called
    /\ TemporalWindowDaysOf # 0
    /\ prune_call.result.primed_knowledge # << >>
    /\ Len(prune_call.result.primed_knowledge)
          < Len(prune_call.context.primed_knowledge)

\* The calls of spawn_subagent between their registration (line 204) and
\* their finally block (line 247): their workers are executing or have just
\* ended.
Registered == {p \in Calls : pc[p] \in {"executing", "cleanup"}}

\* C28: two spawn_subagent calls in flight at the same time never hold the
\* same subagent_id, the registry holds as many handles as there are
\* workers registered, and the finally block of one call never removes the
\* handle of another call whose worker is still executing.
C28_OneRegistryEntryPerWorker ==
    /\ [](/\ \A p, q \in Registered :
                p # q => subagent_id[p] # subagent_id[q]
          /\ Cardinality(DOMAIN active_subagents) = Cardinality(Registered))
    /\ [][\A p \in Calls :
            Cleanup(p) =>
                \A q \in Calls \ {p} :
                    (pc[q] = "executing"
                        /\ subagent_id[q] \in DOMAIN active_subagents)
                      => subagent_id[q] \in DOMAIN active_subagents']_vars

\* ---------------------------------------------- claims: task configuration

\* The names task_name depends on: the entries of its dependencies list.
DependenciesOf(defs, task_name) ==
    LET d == get_task(defs, task_name).dependencies
    IN  {d[i] : i \in 1..Len(d)}
\* No task depends on itself, directly or through other tasks: the tasks
\* can be ranked so that each depends on tasks of lower rank only.
Acyclic(defs) ==
    \E rank \in [DefinedTasks(defs) -> 1..Len(defs)] :
        \A t \in DefinedTasks(defs) :
            \A d \in DependenciesOf(defs, t) \cap DefinedTasks(defs) :
                rank[d] < rank[t]
\* The positions of name in the list order.
PositionsOf(order, name) == {i \in 1..Len(order) : order[i] = name}

\* C29: for an acyclic dependency graph, get_task_execution_order returns a
\* list that holds every task once and every dependency of a task at a
\* position before the task.
C29_DependenciesComeFirst ==
    (order_call.called /\ Acyclic(task_definitions)) =>
        \A t \in DefinedTasks(task_definitions) :
            /\ Cardinality(PositionsOf(order_call.result, t)) = 1
            /\ \A d \in DependenciesOf(task_definitions, t) :
                  \E i \in PositionsOf(order_call.result, d) :
                      \A j \in PositionsOf(order_call.result, t) : i < j
\* An order was computed for an acyclic graph in which abstraction depends
\* on enrichment and on an undefined task, and abstraction was inserted
\* before enrichment.
C29_Witness ==
    /\ order_call.called
    /\ Acyclic(task_definitions)
    /\ TaskKeys(task_definitions)[1] = "abstraction"
    /\ DependenciesOf(task_definitions, "abstraction")
          = {"enrichment", UndefinedTask}
    /\ DependenciesOf(task_definitions, "enrichment") = {"qa_response"}

\* The definition of the task the latest execute_task call named.
CalledTask == get_task(task_definitions, task_call.task_name)
\* Every input the task declares with required true is among the inputs of
\* the call.
RequiredInputsPresent ==
    \A input_name \in DOMAIN CalledTask.inputs :
        ("required" \in DOMAIN CalledTask.inputs[input_name]
            /\ CalledTask.inputs[input_name].required)
          => input_name \in DOMAIN task_call.inputs

\* C30: execute_task calls a handler only for a task that is defined and
\* not deprecated, whose dependencies are all defined, whose task_type has
\* a registered handler and whose required inputs are all present, and it
\* calls it once; for an undefined or a deprecated task it raises
\* ValueError and calls no handler.
C30_HandlerOnlyForValidTask ==
    task_call.called =>
        /\ task_call.handler_calls \in {0, 1}
        /\ task_call.handler_calls = 1 =>
              /\ task_call.task_name \in DefinedTasks(task_definitions)
              /\ ~CalledTask.deprecated
              /\ DependenciesOf(task_definitions, task_call.task_name)
                    \subseteq DefinedTasks(task_definitions)
              /\ CalledTask.task_type \in task_call.registered
              /\ RequiredInputsPresent
        /\ (\/ task_call.task_name \notin DefinedTasks(task_definitions)
            \/ CalledTask.deprecated)
              => /\ task_call.outcome = Raised("ValueError")
                 /\ task_call.handler_calls = 0
\* A handler was called for a task that depends on another task and
\* declares required inputs.
C30_Witness ==
    /\ task_call.called
    /\ task_call.handler_calls = 1
    /\ DependenciesOf(task_definitions, task_call.task_name) # {}
    /\ \E input_name \in DOMAIN CalledTask.inputs :
          Get(CalledTask.inputs[input_name], "required", FALSE)

=============================================================================
